---- MODULE Spec2Model ----
(***************************************************************************)
(* Structured-generation pipeline of the Communication Mirror backend:     *)
(* truncation detection, generateWithSchema, generateWithRetry             *)
(* (backend/lib/generator.ts), the analyze route handler                   *)
(* (backend/src/routes/analyze.ts) and the session manager.                *)
(***************************************************************************)
EXTENDS Integers, Sequences, FiniteSets, TLC

\* ------------------------------------------------------------------------
\* Bounds
\* ------------------------------------------------------------------------

\* number of requests the analyze handler serves in one behaviour
MaxRequests == 2

\* ------------------------------------------------------------------------
\* Text: a string is a sequence of one-character strings
\* ------------------------------------------------------------------------

LowerLetters == {"a"}
UpperLetters == {"A"}
Letters == LowerLetters \cup UpperLetters
Whitespace == {" "}
Digits == {"1"}
\* \w of a regular expression: letters, digits and the underscore
WordChars == Letters \cup Digits \cup {"_"}
Openers == {"{", "["}
Closer(c) == IF c = "{" THEN "}" ELSE "]"
SentenceEnds == {".", "!", "?"}

\* text.trim(): drop leading and trailing whitespace
RECURSIVE TrimEnd(_)
TrimEnd(s) ==
    IF s = <<>> THEN s
    ELSE IF s[Len(s)] \in Whitespace THEN TrimEnd(SubSeq(s, 1, Len(s) - 1))
    ELSE s

RECURSIVE TrimStart(_)
TrimStart(s) ==
    IF s = <<>> THEN s
    ELSE IF s[1] \in Whitespace THEN TrimStart(Tail(s))
    ELSE s

Trim(s) == TrimEnd(TrimStart(s))

\* (s.match(/c/g) || []).length
CountChar(s, c) == Cardinality({i \in 1..Len(s) : s[i] = c})

\* s.endsWith(c)
EndsWith(s, c) == Len(s) >= 1 /\ s[Len(s)] = c

EndsWordThenBracket_openOnly(s, first) ==
    /\ Len(s) >= 2
    /\ s[Len(s) - 1] \in first
    /\ s[Len(s)] \in {"{", "["}

\* /[first][{[\]]$/ : the last two characters are a character of `first`
\* followed by one of { [ ]
EndsWordThenBracket(s, first) ==
    /\ Len(s) >= 2
    /\ s[Len(s) - 1] \in first
    /\ s[Len(s)] \in {"{", "[", "]"}

\* /[{[]\s*$/ and /[a-zA-Z][{[\]]\s*$/ allow trailing whitespace before the end
EndsOpenThenSpaces(s) == LET t == TrimEnd(s) IN Len(t) >= 1 /\ t[Len(t)] \in {"{", "["}

EndsWordBracketThenSpaces(s) == EndsWordThenBracket(TrimEnd(s), Letters)

isTruncated_lettersOnly(text) == EndsWordThenBracket(Trim(text), Letters)

isTruncated(text) ==
    IF text = <<>> \/ Len(Trim(text)) = 0 THEN FALSE
    ELSE LET trimmed == Trim(text)
             openBraces == CountChar(trimmed, "{")
             closeBraces == CountChar(trimmed, "}")
             openBrackets == CountChar(trimmed, "[")
             closeBrackets == CountChar(trimmed, "]")
         IN  \/ EndsWordThenBracket(trimmed, Letters)
             \/ EndsWordThenBracket(trimmed, LowerLetters)
             \/ /\ (openBraces > closeBraces \/ openBrackets > closeBrackets)
                /\ (EndsWith(trimmed, "{") \/ EndsWith(trimmed, "[") \/ EndsOpenThenSpaces(trimmed))
             \/ EndsWordBracketThenSpaces(trimmed)

\* ------------------------------------------------------------------------
\* Parsed JSON values
\* ------------------------------------------------------------------------

Str(s) == [t |-> "str", v |-> s]
Arr(items) == [t |-> "arr", v |-> items]
Obj(fields) == [t |-> "obj", v |-> fields]
Num == [t |-> "num", v |-> <<>>]
Bool == [t |-> "bool", v |-> <<>>]
Null == [t |-> "null", v |-> <<>>]

IndexText_oneBased == <<"[1]", "[2]", "[3]", "[4]">>

\* `[${index}]` for the item at position index + 1
IndexText == <<"[0]", "[1]", "[2]", "[3]">>

NoPath == <<>>

\* The path of the first truncated string leaf in depth-first order, or
\* NoPath when validateNoTruncation returns normally.
RECURSIVE TruncatedPath(_, _)
RECURSIVE FirstTruncated(_, _, _)
FirstTruncated(data, path, i) ==
    IF i > Len(data.v) THEN NoPath
    ELSE LET seg == IF data.t = "arr" THEN <<IndexText[i]>> ELSE <<".", data.v[i][1]>>
             child == IF data.t = "arr" THEN data.v[i] ELSE data.v[i][2]
             hit == TruncatedPath(child, path \o seg)
         IN  IF hit # NoPath THEN hit ELSE FirstTruncated(data, path, i + 1)

TruncatedPath_rootOnly(data, path) ==
    IF data.t = "str" THEN (IF isTruncated(data.v) THEN path ELSE NoPath) ELSE NoPath

TruncatedPath(data, path) ==
    IF data.t = "str" THEN (IF isTruncated(data.v) THEN path ELSE NoPath)
    ELSE IF data.t \in {"arr", "obj"} THEN FirstTruncated(data, path, 1)
    ELSE NoPath

validateNoTruncation(data) == TruncatedPath(data, <<"root">>)

\* ------------------------------------------------------------------------
\* Facet schema: validator and grammar
\* ------------------------------------------------------------------------

Facets == {"intent", "tone", "impact", "alternatives"}

Low == <<"l", "o", "w">>
Medium == <<"m", "e", "d", "i", "u", "m">>
High == <<"h", "i", "g", "h">>
Critical == <<"c", "r", "i", "t", "i", "c", "a", "l">>
Minimal == <<"m", "i", "n", "i", "m", "a", "l">>

\* the declared values of the severity field and values a model may invent
DeclaredSeverities == {Low, Medium, High}
Severities == DeclaredSeverities \cup {Critical, Minimal}

HasField(obj, key) == \E i \in 1..Len(obj.v) : obj.v[i][1] = key

\* the value of field `key` of an object
Field(obj, key) == LET i == CHOOSE i \in 1..Len(obj.v) : obj.v[i][1] = key IN obj.v[i][2]

\* Ajv validator of a facet: `primary` is a string of at least one character,
\* `items` is an array of at least one item, each a string of at least one
\* character, and `severity`, in the facet that has it, is one of the
\* declared values.  The result is the set of (instance path, keyword)
\* errors; validator(v) is true when it is empty.
ValidatorErrors(v) ==
    LET p == Field(v, "primary")
        its == Field(v, "items")
    IN  (IF ~HasField(v, "severity") THEN {}
         ELSE IF Field(v, "severity").t # "str" THEN {<<"/severity", "type">>}
         ELSE IF Field(v, "severity").v \notin DeclaredSeverities THEN {<<"/severity", "enum">>}
         ELSE {})
        \cup
        (IF p.t # "str" THEN {<<"/primary", "type">>}
         ELSE IF Len(p.v) < 1 THEN {<<"/primary", "minLength">>} ELSE {})
        \cup
        (IF its.t # "arr" THEN {<<"/items", "type">>}
         ELSE IF Len(its.v) < 1 THEN {<<"/items", "minItems">>}
         ELSE {<<"/items/item", "type">> : i \in {j \in 1..Len(its.v) : its.v[j].t # "str"}}
              \cup {<<"/items/item", "minLength">> :
                       i \in {j \in 1..Len(its.v) : its.v[j].t = "str" /\ Len(its.v[j].v) < 1}})

validator(v) == ValidatorErrors(v) = {}

\* The grammar enforces keys, types and enumerated values, never minimum
\* lengths.
GrammarAccepts(v) ==
    /\ HasField(v, "severity") =>
          Field(v, "severity").t = "str" /\ Field(v, "severity").v \in DeclaredSeverities
    /\ Field(v, "primary").t = "str"
    /\ Field(v, "items").t = "arr"
    /\ \A j \in 1..Len(Field(v, "items").v) : Field(v, "items").v[j].t = "str"

\* ------------------------------------------------------------------------
\* Raw model output and the two parsers
\* ------------------------------------------------------------------------

Complete == <<"A", "a", ".">>
CutOff == <<"a", "a", "{">>
CutOffItem == <<"A", "[", " ">>

Facet(primary, items) == Obj(<< <<"primary", primary>>, <<"items", Arr(items)>> >>)

vOk == Facet(Str(Complete), <<Str(Complete)>>)
vEmptyString == Facet(Str(<<>>), <<Str(Complete)>>)
vEmptyArray == Facet(Str(Complete), <<>>)
vWrongType == Facet(Num, <<Str(Complete)>>)
vTruncated == Facet(Str(CutOff), <<Str(Complete)>>)
vTruncatedItem == Facet(Str(Complete), <<Str(Complete), Str(CutOffItem)>>)
vTruncatedEmpty == Facet(Str(CutOff), <<>>)

Values == {vOk, vEmptyString, vEmptyArray, vWrongType, vTruncated, vTruncatedItem, vTruncatedEmpty}

NoValue == Obj(<<>>)

\* A raw response is text: well-formed JSON of a value ("json"), the JSON of
\* a value inside surrounding text such as a code fence ("fenced"), text that
\* is no JSON at all ("garbage"), or the empty string ("empty").
Raw(form, val) == [form |-> form, val |-> val]

Responses ==
    {Raw("json", v) : v \in Values} \cup {Raw("fenced", v) : v \in Values}
        \cup {Raw("garbage", NoValue), Raw("empty", NoValue)}

\* session.prompt either rejects or resolves with a raw response
ModelThrew == [threw |-> TRUE, resp |-> Raw("empty", NoValue)]
ModelSaid(r) == [threw |-> FALSE, resp |-> r]
ModelOutcomes == {ModelThrew} \cup {ModelSaid(r) : r \in Responses}

HasRaw_defined(mo) == ~mo.threw

\* `response` is truthy: defined and not the empty string
HasRaw(mo) == ~mo.threw /\ mo.resp.form # "empty"

Parsed(v) == [ok |-> TRUE, val |-> v]
ParseFailed == [ok |-> FALSE, val |-> NoValue]

\* grammar.parse(response): JSON.parse, then the grammar's schema check
grammarParse(r) == IF r.form = "json" /\ GrammarAccepts(r.val) THEN Parsed(r.val) ELSE ParseFailed

\* parseJSON(response): tolerant parse that also finds JSON inside other text
parseJSON(r) == IF r.form \in {"json", "fenced"} THEN Parsed(r.val) ELSE ParseFailed

\* ------------------------------------------------------------------------
\* Error messages, prompts and log entries
\* ------------------------------------------------------------------------

\* An error message: the prefixes put in front of it (outermost first), the
\* kind of failure and its detail (schema errors, or the truncated path).
Msg(pre, kind, detail) == [pre |-> pre, kind |-> kind, detail |-> detail]
NoMsg == Msg(<<>>, "none", {})
Prefixed(p, m) == Msg(<<p>> \o m.pre, m.kind, m.detail)

ModelErrorMsg == Msg(<<>>, "model", {})
GrammarParseErrorMsg == Msg(<<>>, "parse", {})
BuilderErrorMsg == Msg(<<>>, "builder", {})
UnknownErrorMsg == Msg(<<>>, "Unknown error", {})

ValidationFailedMsg_asParse(errs) == GrammarParseErrorMsg

\* `Validation failed: ${errors}`
ValidationFailedMsg(errs) == Msg(<<"Validation failed">>, "schema", errs)
\* `Truncated text detected at ${path}: ...`
TruncatedTextMsg(path) == Msg(<<>>, "truncated", {path})

\* message is the empty string
IsEmptyMsg(m) == m.pre = <<>> /\ m.kind = ""

\* promptBuilder(message, context) and buildRetryPrompt(original, error) are
\* functions handed to generateWithRetry: a prompt records how it was built.
BasePrompt(message, context) ==
    [kind |-> "base", message |-> message, context |-> context, reason |-> NoMsg]
RetryPrompt(original, error) ==
    [kind |-> "retry", message |-> original.message, context |-> original.context, reason |-> error]

LogEntry(type, msg, attempt) == [type |-> type, msg |-> msg, attempt |-> attempt]

\* ------------------------------------------------------------------------
\* generateWithSchema
\* ------------------------------------------------------------------------

Logging_anyType(deps, analysisType) == deps.logger /\ deps.sessionId # ""

\* logger && sessionId && analysisType
Logging(deps, analysisType) == deps.logger /\ deps.sessionId # "" /\ analysisType # "none"

LogIf(cond, entry) == IF cond THEN <<entry>> ELSE <<>>

\* the error of a failed fs.appendFile
LogWriteErrorMsg == Msg(<<>>, "fs", {})

writeLogRejects_uncaught(fsFails) == fsFails

\* LLMLogger.writeLog wraps the file write in try/catch and only reports to
\* the console: the promise of logRequest/logResponse/logError never rejects,
\* whether the file system fails or not
writeLogRejects(fsFails) == FALSE

\* The try block (lines 201-247): the value returned, or the error thrown
\* into the catch block, and the log calls and checks made on the way.
TryBlock(deps, analysisType, mo) ==
    LET logging == Logging(deps, analysisType)
        base == [returned |-> FALSE, value |-> NoValue, error |-> NoMsg, log |-> <<>>,
                 grammarParsed |-> FALSE, validated |-> FALSE, truncChecked |-> FALSE]
    IN  IF mo.threw THEN [base EXCEPT !.error = ModelErrorMsg]
        ELSE LET logResp == LogIf(logging /\ HasRaw(mo), LogEntry("response", NoMsg, 0))
                 g == grammarParse(mo.resp)
             IN  IF ~g.ok
                 THEN [base EXCEPT !.error = GrammarParseErrorMsg, !.log = logResp]
                 ELSE IF ~validator(g.val)
                 THEN LET m == ValidationFailedMsg(ValidatorErrors(g.val))
                      IN  [base EXCEPT !.error = m, !.grammarParsed = TRUE, !.validated = TRUE,
                                       !.log = logResp \o LogIf(logging, LogEntry("error", m, 0))]
                 ELSE LET path == validateNoTruncation(g.val)
                          inner == TruncatedTextMsg(path)
                      IN  IF path # NoPath
                          THEN [base EXCEPT
                                   !.error = Prefixed("Response appears truncated", inner),
                                   !.grammarParsed = TRUE, !.validated = TRUE, !.truncChecked = TRUE,
                                   !.log = logResp \o LogIf(logging,
                                       LogEntry("error", Prefixed("Truncation detected", inner), 0))]
                          ELSE [base EXCEPT
                                   !.returned = TRUE, !.value = g.val,
                                   !.grammarParsed = TRUE, !.validated = TRUE, !.truncChecked = TRUE,
                                   !.log = logResp]

\* The fallback of the catch block is entered: error instanceof Error && response
FallbackEntered(t, mo) == ~t.returned /\ HasRaw(mo)

FallbackAccepts_unvalidated(m) == m.ok

FallbackAccepts_unparsed(m) == ~m.ok \/ validator(m.val)

\* parseJSON returned and validator(manualParsed) holds (lines 259-260)
FallbackAccepts(m) == m.ok /\ validator(m.val)

\* One call of generateWithSchema(prompt, grammar, validator, dependencies,
\* options, analysisType) when session.prompt behaves as `mo`.
generateWithSchema(prompt, deps, analysisType, mo) ==
    LET logging == Logging(deps, analysisType)
        logRejects == logging /\ writeLogRejects(deps.fsFails)
        logReq == LogIf(logging, LogEntry("request", NoMsg, 0))
        t == TryBlock(deps, analysisType, mo)
        out == [returned |-> t.returned, value |-> t.value, error |-> t.error,
                log |-> logReq \o t.log, prompt |-> prompt, raw |-> mo,
                grammarParsed |-> t.grammarParsed, validated |-> t.validated,
                truncChecked |-> t.truncChecked,
                fallbackParses |-> 0, fallbackOk |-> FALSE, viaFallback |-> FALSE]
    IN  IF logRejects
        THEN [out EXCEPT !.returned = FALSE, !.value = NoValue, !.error = LogWriteErrorMsg,
                         !.log = logReq, !.grammarParsed = FALSE, !.validated = FALSE,
                         !.truncChecked = FALSE]
        ELSE IF t.returned THEN out
        ELSE LET logErr == LogIf(logging, LogEntry("error", t.error, 0))
                 caught == [out EXCEPT !.log = logReq \o t.log \o logErr]
             IN  IF FallbackEntered(t, mo)
                 THEN LET m == parseJSON(mo.resp)
                          tried == [caught EXCEPT !.fallbackParses = 1, !.fallbackOk = m.ok]
                      IN  IF FallbackAccepts(m)
                          THEN [tried EXCEPT
                                   !.returned = TRUE, !.value = m.val, !.error = NoMsg,
                                   !.viaFallback = TRUE,
                                   !.log = caught.log \o LogIf(logging, LogEntry("response", NoMsg, 0))]
                          ELSE tried
                 ELSE caught

\* ------------------------------------------------------------------------
\* generateWithRetry: one pipeline per facet
\* ------------------------------------------------------------------------

VARIABLES
    pc,         \* per pipeline: "idle", "running", "success" or "exhausted"
    input,      \* per pipeline: the arguments of the generateWithRetry call
    attempt,    \* per pipeline: the loop counter
    lastError,  \* per pipeline: message of the last caught error, NoMsg for null
    calls,      \* per pipeline: the generateWithSchema calls made, in order
    warned,     \* per pipeline: the "Attempt n/m failed" console warnings
    log,        \* per pipeline: the calls made to the LLM logger, in order
    result,     \* per pipeline: the value returned
    thrown      \* per pipeline: message of the error thrown to the caller

genVars == <<pc, input, attempt, lastError, calls, warned, log, result, thrown>>

maxAttempts_3 == 2 + 1

maxAttempts == 2

LastAttempt_first(n) == n = 1

\* attempt === maxAttempts (line 351)
LastAttempt(n) == n = maxAttempts

Messages == {"Can you send the document?"}
Contexts == {"none", "Previous messages"}
SessionIdArgs == {"", "s1"}
AnalysisTypeArgs == {"none", "intent", "alternatives"}

\* dependencies.logger, dependencies.sessionId, and whether the logger's
\* file writes fail
Deps(logger, sessionId) == [logger |-> logger, sessionId |-> sessionId, fsFails |-> FALSE]
FailingDeps(logger, sessionId) == [Deps(logger, sessionId) EXCEPT !.fsFails = TRUE]

RetryInput(message, context, deps, analysisType, builderThrows) ==
    [message |-> message, context |-> context, deps |-> deps,
     analysisType |-> analysisType, builderThrows |-> builderThrows]

RetryInputs ==
    {RetryInput(m, c, Deps(l, s), a, b) :
        m \in Messages, c \in Contexts, l \in BOOLEAN, s \in SessionIdArgs,
        a \in AnalysisTypeArgs, b \in BOOLEAN}

NoInput == RetryInput("", "none", Deps(FALSE, ""), "none", FALSE)

RetryReason_generic(err) == UnknownErrorMsg

\* lastError?.message || 'Unknown error'
RetryReason(err) == IF err = NoMsg \/ IsEmptyMsg(err) THEN UnknownErrorMsg ELSE err

\* the prompt of attempt n (lines 336-339)
PromptFor(n, inp, err) ==
    IF n = 1 THEN BasePrompt(inp.message, inp.context)
    ELSE RetryPrompt(BasePrompt(inp.message, inp.context), RetryReason(err))

ExhaustedMsg_noReason(err) == Msg(<<"Failed after attempts">>, "none", {})

ExhaustedMsg_rethrown(err) == err

\* `Failed after ${maxAttempts} attempts: ${lastError.message}`
ExhaustedMsg(err) == Prefixed("Failed after attempts", err)

\* `Attempt ${attempt} failed: ${lastError.message}`
AttemptFailedMsg(err) == Prefixed("Attempt failed", err)

GenInit ==
    /\ pc = [f \in Facets |-> "idle"]
    /\ input = [f \in Facets |-> NoInput]
    /\ attempt = [f \in Facets |-> 1]
    /\ lastError = [f \in Facets |-> NoMsg]
    /\ calls = [f \in Facets |-> <<>>]
    /\ warned = [f \in Facets |-> <<>>]
    /\ log = [f \in Facets |-> <<>>]
    /\ result = [f \in Facets |-> NoValue]
    /\ thrown = [f \in Facets |-> NoMsg]

\* generateWithRetry is called (lines 319-332)
StartRetry(f, inp) ==
    /\ pc[f] # "running"
    /\ pc' = [pc EXCEPT ![f] = "running"]
    /\ input' = [input EXCEPT ![f] = inp]
    /\ attempt' = [attempt EXCEPT ![f] = 1]
    /\ lastError' = [lastError EXCEPT ![f] = NoMsg]
    /\ calls' = [calls EXCEPT ![f] = <<>>]
    /\ warned' = [warned EXCEPT ![f] = <<>>]
    /\ log' = [log EXCEPT ![f] = <<>>]
    /\ result' = [result EXCEPT ![f] = NoValue]
    /\ thrown' = [thrown EXCEPT ![f] = NoMsg]

AttemptFailed_throwFirst(f, err, made) ==
    LET inp == input[f]
        n == attempt[f]
    IN  /\ lastError' = [lastError EXCEPT ![f] = err]
        /\ warned' = [warned EXCEPT ![f] = Append(@, [attempt |-> n, msg |-> err])]
        /\ log' = [log EXCEPT ![f] = @ \o made
                      \o LogIf(Logging(inp.deps, inp.analysisType) /\ ~LastAttempt(n),
                               LogEntry("error", AttemptFailedMsg(err), n))]
        /\ IF LastAttempt(n)
           THEN /\ pc' = [pc EXCEPT ![f] = "exhausted"]
                /\ thrown' = [thrown EXCEPT ![f] = ExhaustedMsg(err)]
                /\ UNCHANGED attempt
           ELSE /\ attempt' = [attempt EXCEPT ![f] = n + 1]
                /\ UNCHANGED <<pc, thrown>>
        /\ UNCHANGED result

\* the catch block of the loop (lines 342-354) for the caught error `err`
AttemptFailed(f, err, made) ==
    LET inp == input[f]
        n == attempt[f]
    IN  /\ lastError' = [lastError EXCEPT ![f] = err]
        /\ warned' = [warned EXCEPT ![f] = Append(@, [attempt |-> n, msg |-> err])]
        /\ log' = [log EXCEPT ![f] = @ \o made
                      \o LogIf(Logging(inp.deps, inp.analysisType),
                               LogEntry("error", AttemptFailedMsg(err), n))]
        /\ IF LastAttempt(n)
           THEN /\ pc' = [pc EXCEPT ![f] = "exhausted"]
                /\ thrown' = [thrown EXCEPT ![f] = ExhaustedMsg(err)]
                /\ UNCHANGED attempt
           ELSE /\ attempt' = [attempt EXCEPT ![f] = n + 1]
                /\ UNCHANGED <<pc, thrown>>
        /\ UNCHANGED result

\* one iteration of the retry loop (lines 334-355), session.prompt behaving as mo
Attempt(f, mo) ==
    /\ pc[f] = "running"
    /\ attempt[f] <= maxAttempts
    /\ \E inp \in {input[f]} :
       \E g \in {generateWithSchema(PromptFor(attempt[f], inp, lastError[f]),
                                    inp.deps, inp.analysisType, mo)} :
           IF inp.builderThrows
           THEN /\ AttemptFailed(f, BuilderErrorMsg, <<>>)
                /\ UNCHANGED calls
           ELSE /\ calls' = [calls EXCEPT ![f] = Append(@, g)]
                /\ IF g.returned
                   THEN /\ pc' = [pc EXCEPT ![f] = "success"]
                        /\ result' = [result EXCEPT ![f] = g.value]
                        /\ log' = [log EXCEPT ![f] = @ \o g.log]
                        /\ UNCHANGED <<attempt, lastError, warned, thrown>>
                   ELSE AttemptFailed(f, g.error, g.log)
    /\ UNCHANGED input

Settled(f) == pc[f] \in {"success", "exhausted"}

\* ------------------------------------------------------------------------
\* Session store, analyzeBatched and the analyze route handler
\* ------------------------------------------------------------------------

VARIABLES
    sessions,   \* session store: the interactions of every stored session
    created,    \* number of sessions created so far
    hpc,        \* handler: "idle", "analyzing" (awaiting analyzeBatched), "done"
    req,        \* handler: the request body
    sessionId,  \* handler: the local sessionId
    context,    \* handler: the local context
    sent,       \* handler: the res.json calls of the current request
    passed,     \* handler: the next(error) calls of the current request
    served,     \* number of requests received
    events      \* handler: the calls made for the current request, in order

handlerVars == <<sessions, created, hpc, req, sessionId, context, sent, passed, served, events>>

SessionNames == <<"s1", "s2", "s3", "s4">>
UnknownSession == "gone"

Request(message, sid) == [message |-> message, sessionId |-> sid]
NoRequest == Request("", "")

HandlerInit ==
    /\ sessions = <<>>
    /\ created = 0
    /\ hpc = "idle"
    /\ req = NoRequest
    /\ sessionId = ""
    /\ context = "none"
    /\ sent = <<>>
    /\ passed = <<>>
    /\ served = 0
    /\ events = <<>>

\* a call made by the handler and the session id it was made with
Event(op, sid) == [op |-> op, sid |-> sid]

\* sessionManager.getSession(id) is not null
SessionExists(id) == id \in DOMAIN sessions

\* what formatContext returns for a session without history
NullContext == "null"
EmptyContext == ""
BlankContexts == {NullContext, EmptyContext}

\* sessionManager.formatContext(id): the formatted history, or a blank
formatContext(store, id, blank) ==
    IF id \in DOMAIN store /\ store[id] # <<>> THEN "Previous messages" ELSE blank

\* `if (context)`: neither null nor the empty string
Truthy(c) == c \notin BlankContexts

ContextArg_raw(c) == c

\* `context || undefined`, "none" standing for undefined
ContextArg(c) == IF Truthy(c) THEN c ELSE "none"

\* the sessionManager call that throws while a request is handled
Faults == {"none", "getSession", "createSession", "formatContext"}

\* sessionManager.addInteraction(id, message, analysis)
addInteraction(store, id, message, data) ==
    IF id \in DOMAIN store
    THEN [store EXCEPT ![id] = Append(@, [message |-> message, analysis |-> data])]
    ELSE store

\* the model outcomes drawn for the four concurrent pipelines of a batch
BatchOutcomes == {ModelSaid(Raw("json", vOk)), ModelSaid(Raw("json", vEmptyArray)), ModelThrew}

\* analyzeBatched starts the four facet pipelines on their own sequences
LaunchFacets(message, ctx, sid) ==
    /\ pc' = [f \in Facets |-> "running"]
    /\ input' = [f \in Facets |-> RetryInput(message, ctx, Deps(TRUE, sid), f, FALSE)]
    /\ attempt' = [f \in Facets |-> 1]
    /\ lastError' = [f \in Facets |-> NoMsg]
    /\ calls' = [f \in Facets |-> <<>>]
    /\ warned' = [f \in Facets |-> <<>>]
    /\ log' = [f \in Facets |-> <<>>]
    /\ result' = [f \in Facets |-> NoValue]
    /\ thrown' = [f \in Facets |-> NoMsg]

NeedsNewSession_ifAbsent(provided) == provided = ""

\* !sessionId, or getSession(sessionId) is null (lines 109-118)
NeedsNewSession(provided) == provided = "" \/ ~SessionExists(provided)

\* the handler stops at a throwing sessionManager call: the catch block
\* passes the error on (lines 159-162), analyzeBatched is never called
Thrown(store, made, sid, step) ==
    /\ sessions' = store
    /\ created' = made
    /\ sessionId' = sid
    /\ hpc' = "done"
    /\ passed' = <<{step}>>
    /\ UNCHANGED <<genVars, context>>

\* the handler up to `await llmService.analyzeBatched(...)` (lines 98-143);
\* `blank` is what formatContext returns without history, `fault` the
\* sessionManager call that throws
Receive(message, provided, blank, fault) ==
    /\ hpc \in {"idle", "done"}
    /\ served < MaxRequests
    /\ LET fresh == NeedsNewSession(provided)
           sid == IF fresh THEN SessionNames[created + 1] ELSE provided
           store == IF fresh THEN sessions @@ (sid :> <<>>) ELSE sessions
           made == IF fresh THEN created + 1 ELSE created
           raw == formatContext(store, sid, blank)
           lookup == IF provided = "" THEN <<>> ELSE <<Event("getSession", provided)>>
           resolved == lookup \o (IF fresh THEN <<Event("createSession", sid)>> ELSE <<>>)
       IN  IF fault = "getSession" /\ provided # ""
           THEN /\ Thrown(sessions, created, provided, fault)
                /\ events' = <<Event("getSession threw", provided), Event("next", provided)>>
           ELSE IF fault = "createSession" /\ fresh
           THEN /\ Thrown(sessions, created, provided, fault)
                /\ events' = lookup \o <<Event("createSession threw", provided),
                                          Event("next", provided)>>
           ELSE IF fault = "formatContext"
           THEN /\ Thrown(store, made, sid, fault)
                /\ events' = resolved \o <<Event("formatContext threw", sid), Event("next", sid)>>
           ELSE /\ sessions' = store
                /\ created' = made
                /\ sessionId' = sid
                /\ context' = raw
                /\ LaunchFacets(message, ContextArg(raw), sid)
                /\ events' = resolved
                      \o <<Event("formatContext", sid)>>
                      \o (IF Truthy(raw) THEN <<Event("getInteractions", sid)>> ELSE <<>>)
                      \o <<Event("analyzeBatched", sid)>>
                /\ hpc' = "analyzing"
                /\ passed' = <<>>
    /\ req' = Request(message, provided)
    /\ sent' = <<>>
    /\ served' = served + 1

\* one pipeline of the batch makes one attempt
FacetStep(f, mo) ==
    /\ hpc = "analyzing"
    /\ Attempt(f, mo)
    /\ UNCHANGED handlerVars

\* analyzeBatched waits for the four pipelines: the assembled result when all
\* succeeded, a failure naming the exhausted facets otherwise
BatchOutcome ==
    IF \A f \in Facets : pc[f] = "success"
    THEN [ok |-> TRUE, data |-> [f \in Facets |-> result[f]], failed |-> {}]
    ELSE [ok |-> FALSE, data |-> [f \in Facets |-> NoValue],
          failed |-> {f \in Facets : pc[f] = "exhausted"}]

Succeed_noStore(data) ==
    /\ sent' = Append(sent, [success |-> TRUE, data |-> data, sessionId |-> sessionId])
    /\ events' = events \o <<Event("analyzeBatched returned", sessionId),
                              Event("res.json", sessionId)>>
    /\ UNCHANGED <<sessions, passed>>

Succeed_sendFirst(data) ==
    /\ sessions' = addInteraction(sessions, sessionId, req.message, data)
    /\ sent' = Append(sent, [success |-> TRUE, data |-> data, sessionId |-> sessionId])
    /\ events' = events \o <<Event("analyzeBatched returned", sessionId),
                              Event("res.json", sessionId),
                              Event("addInteraction", sessionId)>>
    /\ UNCHANGED passed

\* the handler after analyzeBatched returned `data` (lines 144-158)
Succeed(data) ==
    /\ sessions' = addInteraction(sessions, sessionId, req.message, data)
    /\ sent' = Append(sent, [success |-> TRUE, data |-> data, sessionId |-> sessionId])
    /\ events' = events \o <<Event("analyzeBatched returned", sessionId),
                              Event("addInteraction", sessionId),
                              Event("res.json", sessionId)>>
    /\ UNCHANGED passed

Fail_storing(failed) ==
    /\ passed' = Append(passed, failed)
    /\ sessions' = addInteraction(sessions, sessionId, req.message, BatchOutcome.data)
    /\ events' = events \o <<Event("analyzeBatched threw", sessionId),
                              Event("addInteraction", sessionId), Event("next", sessionId)>>
    /\ UNCHANGED sent

\* the handler when analyzeBatched threw (lines 159-162)
Fail(failed) ==
    /\ passed' = Append(passed, failed)
    /\ events' = events \o <<Event("analyzeBatched threw", sessionId), Event("next", sessionId)>>
    /\ UNCHANGED <<sessions, sent>>

BatchJoined_failFast == (\A f \in Facets : Settled(f)) \/ (\E f \in Facets : pc[f] = "exhausted")

\* analyzeBatched joins the four pipelines: it settles when all of them have
BatchJoined == \A f \in Facets : Settled(f)

StoreThrew_afterSend ==
    /\ passed' = Append(passed, {"addInteraction"})
    /\ sent' = Append(sent, [success |-> TRUE, data |-> BatchOutcome.data, sessionId |-> sessionId])
    /\ events' = events \o <<Event("analyzeBatched returned", sessionId),
                              Event("res.json", sessionId),
                              Event("addInteraction threw", sessionId),
                              Event("next", sessionId)>>
    /\ UNCHANGED sessions

\* addInteraction throws: the catch block passes the error on, nothing is
\* stored and res.json is not reached (lines 150, 159-162)
StoreThrew ==
    /\ passed' = Append(passed, {"addInteraction"})
    /\ events' = events \o <<Event("analyzeBatched returned", sessionId),
                              Event("addInteraction threw", sessionId),
                              Event("next", sessionId)>>
    /\ UNCHANGED <<sessions, sent>>

\* analyzeBatched settles and the handler finishes the request
Respond(storeThrows) ==
    /\ hpc = "analyzing"
    /\ BatchJoined
    /\ IF ~BatchOutcome.ok THEN Fail(BatchOutcome.failed)
       ELSE IF storeThrows THEN StoreThrew
       ELSE Succeed(BatchOutcome.data)
    /\ hpc' = "done"
    /\ UNCHANGED <<genVars, created, req, sessionId, context, served>>

\* ------------------------------------------------------------------------
\* The truncation detector and the recursive check applied to inputs
\* ------------------------------------------------------------------------

VARIABLES
    sample,     \* a text handed to isTruncated
    verdict,    \* "unchecked", or what isTruncated(sample) returned
    doc,        \* a parsed structure handed to validateNoTruncation
    depth,      \* growth steps taken to build doc
    checked,    \* validateNoTruncation(doc) has run
    truncPath   \* the path in the error it threw, NoPath when it returned

pureVars == <<sample, verdict, doc, depth, checked, truncPath>>

\* longest text typed
MaxTextLen == 4
\* most growth steps of a structure: a leaf, then arrays and objects around it
MaxDepth == 3

Alphabet == WordChars \cup Openers \cup {"}", "]"} \cup SentenceEnds \cup Whitespace

Leaves == {Str(Complete), Str(CutOff), Num, Bool, Null}

\* doc as an item of an array or a field of an object, alone or beside a leaf
Nestings(d) ==
    {Arr(<<d>>), Obj(<< <<"k1", d>> >>)}
        \cup {Arr(<<l, d>>) : l \in Leaves} \cup {Arr(<<d, l>>) : l \in Leaves}
        \cup {Obj(<< <<"k1", l>>, <<"k2", d>> >>) : l \in Leaves}
        \cup {Obj(<< <<"k1", d>>, <<"k2", l>> >>) : l \in Leaves}

PureInit ==
    /\ sample = <<>>
    /\ verdict = "unchecked"
    /\ doc = Null
    /\ depth = 0
    /\ checked = FALSE
    /\ truncPath = NoPath

\* the text grows by one character
Type ==
    /\ Len(sample) < MaxTextLen
    /\ \E c \in Alphabet : sample' = Append(sample, c)
    /\ verdict' = "unchecked"
    /\ UNCHANGED <<doc, depth, checked, truncPath>>

\* isTruncated(sample) is called
Detect ==
    /\ verdict = "unchecked"
    /\ verdict' = IF isTruncated(sample) THEN "truncated" ELSE "complete"
    /\ UNCHANGED <<sample, doc, depth, checked, truncPath>>

\* the structure grows by one level
Nest ==
    /\ depth < MaxDepth
    /\ doc' \in IF depth = 0 THEN Leaves ELSE Nestings(doc)
    /\ depth' = depth + 1
    /\ checked' = FALSE
    /\ truncPath' = NoPath
    /\ UNCHANGED <<sample, verdict>>

\* validateNoTruncation(doc) is called
Validate ==
    /\ ~checked
    /\ checked' = TRUE
    /\ truncPath' = validateNoTruncation(doc)
    /\ UNCHANGED <<sample, verdict, doc, depth>>

\* ------------------------------------------------------------------------
\* Two runs of generateWithRetry fed the same model outputs
\* ------------------------------------------------------------------------

VARIABLES
    tape        \* the model outcomes the first run has consumed, in order

Logged == "intent"
Unlogged == "tone"

PairOutcomes ==
    {ModelThrew, ModelSaid(Raw("garbage", NoValue)), ModelSaid(Raw("fenced", vOk)),
     ModelSaid(Raw("json", vOk)), ModelSaid(Raw("json", vEmptyArray)),
     ModelSaid(Raw("json", vTruncated))}

PairDeps ==
    {Deps(l, s) : l \in BOOLEAN, s \in SessionIdArgs}
        \cup {FailingDeps(l, s) : l \in BOOLEAN, s \in SessionIdArgs}

PairInit == tape = <<>>

\* the same generateWithRetry call is made twice: once with any logger and
\* sessionId, once with neither
StartPair(m, c, d, a, b) ==
    /\ pc[Logged] # "running" /\ pc[Unlogged] # "running"
    /\ LET with == RetryInput(m, c, d, a, b)
           without == RetryInput(m, c, Deps(FALSE, ""), a, b)
           others == Facets \ {Logged, Unlogged}
       IN  /\ pc' = [f \in Facets |-> IF f \in others THEN pc[f] ELSE "running"]
           /\ input' = [f \in Facets |-> IF f = Logged THEN with
                                         ELSE IF f = Unlogged THEN without ELSE input[f]]
           /\ attempt' = [f \in Facets |-> IF f \in others THEN attempt[f] ELSE 1]
           /\ lastError' = [f \in Facets |-> IF f \in others THEN lastError[f] ELSE NoMsg]
           /\ calls' = [f \in Facets |-> IF f \in others THEN calls[f] ELSE <<>>]
           /\ warned' = [f \in Facets |-> IF f \in others THEN warned[f] ELSE <<>>]
           /\ log' = [f \in Facets |-> IF f \in others THEN log[f] ELSE <<>>]
           /\ result' = [f \in Facets |-> IF f \in others THEN result[f] ELSE NoValue]
           /\ thrown' = [f \in Facets |-> IF f \in others THEN thrown[f] ELSE NoMsg]
    /\ tape' = <<>>

\* the first run makes an attempt and the model's behaviour is recorded
LeadStep(mo) ==
    /\ Attempt(Logged, mo)
    /\ tape' = Append(tape, mo)

\* the second run makes its next attempt against the recorded behaviour
FollowStep ==
    /\ pc[Unlogged] = "running"
    /\ attempt[Unlogged] <= Len(tape)
    /\ Attempt(Unlogged, tape[attempt[Unlogged]])
    /\ UNCHANGED tape

\* ------------------------------------------------------------------------
\* Post-processing of accepted results: normalizeImpactMetrics and
\* filterNeutralEmotions
\* ------------------------------------------------------------------------

VARIABLES
    history     \* an accepted structure followed by the result of each normalization pass

\* most emotions in a tone result
MaxEmotions == 3
\* normalization passes applied to one structure
MaxPasses == 2

\* enum coercion: a value outside the declared set is remapped to the nearest
\* declared one in a fixed priority order
CoerceSeverity(sev) ==
    IF sev \in DeclaredSeverities THEN sev
    ELSE IF sev = Critical THEN High
    ELSE IF sev = Minimal THEN Low
    ELSE Medium

\* normalizeImpactMetrics: coerce the severity field, leave the rest alone
normalizeImpactMetrics(metrics) ==
    Obj([i \in 1..Len(metrics.v) |->
            IF metrics.v[i][1] = "severity" /\ metrics.v[i][2].t = "str"
            THEN <<"severity", Str(CoerceSeverity(metrics.v[i][2].v))>>
            ELSE metrics.v[i]])

EmotionLabels == {"frustrated", "pleased", "neutral"}
Sentiments == {"negative", "positive", "neutral"}
Emotion(label, sentiment) == [label |-> label, sentiment |-> sentiment]
Emotions == {Emotion(l, sn) : l \in EmotionLabels, sn \in Sentiments}

\* the valence an emotion label carries
Valence(label) ==
    IF label = "frustrated" THEN "negative"
    ELSE IF label = "pleased" THEN "positive"
    ELSE "neutral"

IsSubstantive(e) == Valence(e.label) # "neutral"

\* the sentiment of every entry is rewritten to the valence of its label
RepairSentiments(es) == [i \in 1..Len(es) |-> Emotion(es[i].label, Valence(es[i].label))]

RECURSIVE DropFirstNeutral(_)
DropFirstNeutral(es) ==
    IF es = <<>> THEN es
    ELSE IF ~IsSubstantive(Head(es)) THEN Tail(es)
    ELSE <<Head(es)>> \o DropFirstNeutral(Tail(es))

filterNeutralEmotions_dropFirst(es) ==
    IF \E i \in 1..Len(es) : IsSubstantive(es[i])
    THEN DropFirstNeutral(RepairSentiments(es))
    ELSE RepairSentiments(es)

\* filterNeutralEmotions: repair the sentiments, then drop the neutral
\* entries when a substantive entry remains
filterNeutralEmotions(es) ==
    IF \E i \in 1..Len(es) : IsSubstantive(es[i])
    THEN SelectSeq(RepairSentiments(es), IsSubstantive)
    ELSE RepairSentiments(es)

\* an accepted result of the tone facet (emotions) or the impact facet (metrics)
Accepted(facet, emotions, metrics) == [facet |-> facet, emotions |-> emotions, metrics |-> metrics]

ImpactMetrics(sev) ==
    Obj(<< <<"primary", Str(Complete)>>, <<"items", Arr(<<Str(Complete)>>)>>, <<"severity", Str(sev)>> >>)

RECURSIVE EmotionLists(_)
EmotionLists(n) ==
    IF n = 0 THEN {<<>>}
    ELSE LET shorter == EmotionLists(n - 1)
         IN  shorter \cup {Append(es, e) : es \in {l \in shorter : Len(l) = n - 1}, e \in Emotions}

AcceptedResults ==
    {Accepted("tone", es, NoValue) : es \in EmotionLists(MaxEmotions) \ {<<>>}}
        \cup {Accepted("impact", <<>>, ImpactMetrics(sev)) : sev \in Severities}

\* the facet-specific normalization pass
normalize(x) ==
    IF x.facet = "tone" THEN [x EXCEPT !.emotions = filterNeutralEmotions(@)]
    ELSE IF x.facet = "impact" THEN [x EXCEPT !.metrics = normalizeImpactMetrics(@)]
    ELSE x

NormInit == history = <<>>

\* a pipeline hands over an accepted structure
Accept(x) ==
    /\ history = <<>>
    /\ history' = <<x>>

\* normalization runs on the latest structure
NormalizePass ==
    /\ history # <<>>
    /\ Len(history) <= MaxPasses
    /\ history' = Append(history, normalize(history[Len(history)]))

\* ------------------------------------------------------------------------
\* The impact pipeline: generateWithRetry, then normalizeImpactMetrics
\* ------------------------------------------------------------------------

ImpactOutcomes ==
    {ModelThrew}
        \cup {ModelSaid(Raw("json", ImpactMetrics(sev))) : sev \in Severities}
        \cup {ModelSaid(Raw("fenced", ImpactMetrics(sev))) : sev \in Severities}

ImpactInputs ==
    {RetryInput(m, c, Deps(l, sid), "impact", FALSE) :
        m \in Messages, c \in Contexts, l \in BOOLEAN, sid \in SessionIdArgs}

\* the outcome of the impact facet: the normalized result of generateWithRetry
ImpactOutcome ==
    IF pc["impact"] = "success"
    THEN [valid |-> TRUE, value |-> normalizeImpactMetrics(result["impact"])]
    ELSE [valid |-> FALSE, value |-> NoValue]

\* ------------------------------------------------------------------------
\* LLMLogger: one log file per session, written by appendFile calls that
\* settle later and may fail
\* ------------------------------------------------------------------------

VARIABLES
    sessionLogFiles,  \* LLMLogger.sessionLogFiles: sessionId -> file path
    disk,             \* the log directory: file path -> the chunks appended
    inflight,         \* fs.appendFile calls that have not settled
    clock,            \* the time new Date() reads
    logCalls,         \* the logRequest/logResponse/logError calls made
    headerCalls,      \* the writeLogHeader calls made
    unhandled         \* promise rejections nobody handled

loggerVars == <<sessionLogFiles, disk, inflight, clock, logCalls, headerCalls, unhandled>>

\* most log calls made
MaxLogCalls == 3
\* last reading of the clock
MaxClock == 1

LogSessions == {<<"a">>, <<"a", "-", "1", "Z">>}

\* new Date().toISOString().replace(/[:.]/g, '-'): a text of fixed length
Stamp(t) == <<IF t = 0 THEN "0" ELSE IF t = 1 THEN "1" ELSE IF t = 2 THEN "2" ELSE "3", "Z">>

\* path.join(logDir, `session-${sessionId}-${timestamp}.log`)
LogFilePath(sid, t) == <<"logs/", "session-">> \o sid \o <<"-">> \o Stamp(t) \o <<".log">>

HasLogFile_never(sid) == FALSE

\* this.sessionLogFiles.has(sessionId)
HasLogFile(sid) == sid \in DOMAIN sessionLogFiles

ResolveEscapes_outsideTry(throws) == throws

\* getLogFilePath and formatLogEntry run inside writeLog's try block
ResolveEscapes(throws) == FALSE

\* writeLogHeader catches a failed append, and its caller has a .catch too
HeaderRejects(fsFails) == FALSE

LoggerInit ==
    /\ sessionLogFiles = <<>>
    /\ disk = <<>>
    /\ inflight = {}
    /\ clock = 0
    /\ logCalls = <<>>
    /\ headerCalls = <<>>
    /\ unhandled = 0

Chunk(kind, sid, call) == [kind |-> kind, sid |-> sid, call |-> call]
AppendOp(path, chunk) == [path |-> path, chunk |-> chunk]
LogCall(sid, status, path) == [sid |-> sid, status |-> status, path |-> path]
NoFile == <<>>

\* logRequest, logResponse or logError (alike but for the type of the entry
\* they build) up to the await of fs.appendFile: writeLog calls
\* getLogFilePath, which on the first call for a session puts the path in
\* the map and starts writeLogHeader without awaiting it
StartLog(sid, resolveThrows) ==
    /\ Len(logCalls) < MaxLogCalls
    /\ LET n == Len(logCalls) + 1
           known == HasLogFile(sid)
           path == IF known THEN sessionLogFiles[sid] ELSE LogFilePath(sid, clock)
       IN  IF resolveThrows
           THEN /\ logCalls' = Append(logCalls,
                       LogCall(sid, IF ResolveEscapes(resolveThrows) THEN "rejected"
                                    ELSE "resolved", NoFile))
                /\ UNCHANGED <<sessionLogFiles, inflight, headerCalls>>
           ELSE /\ sessionLogFiles' = IF known THEN sessionLogFiles
                                      ELSE (sid :> path) @@ sessionLogFiles
                /\ headerCalls' = IF known THEN headerCalls
                                  ELSE Append(headerCalls, [sid |-> sid, path |-> path])
                /\ inflight' = inflight
                      \cup (IF known THEN {} ELSE {AppendOp(path, Chunk("header", sid, n))})
                      \cup {AppendOp(path, Chunk("entry", sid, n))}
                /\ logCalls' = Append(logCalls, LogCall(sid, "pending", path))
    /\ UNCHANGED <<disk, clock, unhandled>>

\* time passes
Tick ==
    /\ clock < MaxClock
    /\ clock' = clock + 1
    /\ UNCHANGED <<sessionLogFiles, disk, inflight, logCalls, headerCalls, unhandled>>

\* an fs.appendFile call settles: the chunk is in the file, or the call
\* failed and the catch block that awaits it logs the failure to the console
AppendSettles(op, ok) ==
    /\ op \in inflight
    /\ inflight' = inflight \ {op}
    /\ disk' = IF ~ok THEN disk
               ELSE IF op.path \in DOMAIN disk
               THEN [disk EXCEPT ![op.path] = Append(@, op.chunk)]
               ELSE (op.path :> <<op.chunk>>) @@ disk
    /\ IF op.chunk.kind = "entry"
       THEN /\ logCalls' = [logCalls EXCEPT ![op.chunk.call].status =
                                IF writeLogRejects(~ok) THEN "rejected" ELSE "resolved"]
            /\ UNCHANGED unhandled
       ELSE /\ unhandled' = IF HeaderRejects(~ok) THEN unhandled + 1 ELSE unhandled
            /\ UNCHANGED logCalls
    /\ UNCHANGED <<sessionLogFiles, clock, headerCalls>>

\* ------------------------------------------------------------------------
\* SessionManager: the module-level instance, getInstance and reset
\* ------------------------------------------------------------------------

VARIABLES
    sessionManagerInstance,  \* 0 for null, or the number of the object it holds
    managers,                \* the SessionManager objects constructed so far
    managerCalls             \* the getInstance / getSessionManager / reset calls made

managerVars == <<sessionManagerInstance, managers, managerCalls>>

\* most calls made on the SessionManager class
MaxManagerCalls == 5

NoInstance == 0
NoConfig == "undefined"
ManagerConfigs == {NoConfig, "short timeout", "long timeout"}

\* new SessionManager(config): a context store built from config
Manager(config) == [config |-> config, disposed |-> 0]

ManagerCall(op, config, returned) == [op |-> op, config |-> config, returned |-> returned]

ManagerInit ==
    /\ sessionManagerInstance = NoInstance
    /\ managers = <<>>
    /\ managerCalls = <<>>

NeedsInstance_reconfigured(current, config) == current = NoInstance \/ config # NoConfig

\* !sessionManagerInstance
NeedsInstance(current, config) == current = NoInstance

\* SessionManager.getInstance(config)
getInstance(op, config) ==
    /\ Len(managerCalls) < MaxManagerCalls
    /\ LET fresh == NeedsInstance(sessionManagerInstance, config)
           obj == IF fresh THEN Len(managers) + 1 ELSE sessionManagerInstance
       IN  /\ managers' = IF fresh THEN Append(managers, Manager(config)) ELSE managers
           /\ sessionManagerInstance' = obj
           /\ managerCalls' = Append(managerCalls, ManagerCall(op, config, obj))

\* getSessionManager()
getSessionManager == getInstance("getSessionManager", NoConfig)

\* SessionManager.reset()
reset ==
    /\ Len(managerCalls) < MaxManagerCalls
    /\ managerCalls' = Append(managerCalls, ManagerCall("reset", NoConfig, NoInstance))
    /\ IF sessionManagerInstance # NoInstance
       THEN /\ managers' = [managers EXCEPT ![sessionManagerInstance].disposed = @ + 1]
            /\ sessionManagerInstance' = NoInstance
       ELSE UNCHANGED <<managers, sessionManagerInstance>>

\* ------------------------------------------------------------------------
\* getLLMLogger / resetLLMLogger: the module-level logger instance
\* ------------------------------------------------------------------------

VARIABLES
    loggerInstance,  \* 0 for null, or the number of the LLMLogger it holds
    loggers,         \* the LLMLogger objects constructed so far
    loggerGets       \* the getLLMLogger / resetLLMLogger calls made

registryVars == <<loggerInstance, loggers, loggerGets>>

\* most calls made on the logger module
MaxLoggerGets == 4

NoLogger == 0
\* an argument that is not passed
Undefined == <<"undefined">>
DefaultLogDir == <<"./logs">>
LogDirArgs == {Undefined, <<"./other-logs">>}
EmptyPath == <<>>
ModelPathArgs == {Undefined, EmptyPath, <<"models/", "qwen", ".gguf">>, <<"llama", ".gguf">>}

\* path.basename(modelPath, path.extname(modelPath))
ModelName(modelPath) ==
    LET n == Len(modelPath)
    IN  IF n = 0 THEN <<>>
        ELSE IF n >= 2 /\ modelPath[n] = ".gguf" THEN <<modelPath[n - 1]>> ELSE <<modelPath[n]>>

\* a parameter with a default value
OrDefault(arg, default) == IF arg = Undefined THEN default ELSE arg

\* modelPath is given: neither undefined nor the empty string
PathGiven(modelPath) == modelPath \notin {Undefined, EmptyPath}

\* new LLMLogger(logDir, modelPath): the constructor derives modelName; the
\* modelPath field keeps its initial '' and the session map is empty
NewLogger(logDir, modelPath) ==
    [logDir |-> OrDefault(logDir, DefaultLogDir),
     modelName |-> IF PathGiven(modelPath) THEN ModelName(modelPath) ELSE <<"unknown">>,
     modelPath |-> EmptyPath,
     mapped |-> {}]

\* setModelPath(modelPath)
setModelPath(logger, modelPath) ==
    [logger EXCEPT !.modelPath = modelPath, !.modelName = ModelName(modelPath)]

LoggerGet(op, logDir, modelPath, returned) ==
    [op |-> op, logDir |-> logDir, modelPath |-> modelPath, returned |-> returned]

RegistryInit ==
    /\ loggerInstance = NoLogger
    /\ loggers = <<>>
    /\ loggerGets = <<>>

UpdatesModel_always(modelPath) == modelPath # Undefined

\* else if (modelPath)
UpdatesModel(modelPath) == PathGiven(modelPath)

\* getLLMLogger(logDir, modelPath)
getLLMLogger(logDir, modelPath) ==
    /\ Len(loggerGets) < MaxLoggerGets
    /\ IF loggerInstance = NoLogger
       THEN /\ loggers' = Append(loggers, NewLogger(logDir, modelPath))
            /\ loggerInstance' = Len(loggers) + 1
       ELSE /\ loggers' = IF UpdatesModel(modelPath)
                          THEN [loggers EXCEPT ![loggerInstance] = setModelPath(@, modelPath)]
                          ELSE loggers
            /\ UNCHANGED loggerInstance
    /\ loggerGets' = Append(loggerGets, LoggerGet("get", logDir, modelPath, loggerInstance'))

\* resetLLMLogger()
resetLLMLogger ==
    /\ Len(loggerGets) < MaxLoggerGets
    /\ loggerInstance' = NoLogger
    /\ loggerGets' = Append(loggerGets, LoggerGet("reset", Undefined, Undefined, NoLogger))
    /\ UNCHANGED loggers

\* the current logger resolves the log file of a session (getLogFilePath)
MapSession(sid) ==
    /\ loggerInstance # NoLogger
    /\ sid \notin loggers[loggerInstance].mapped
    /\ loggers' = [loggers EXCEPT ![loggerInstance].mapped = @ \cup {sid}]
    /\ UNCHANGED <<loggerInstance, loggerGets>>

\* ------------------------------------------------------------------------
\* EditorView and EditorPanel: session initialisation and handleAnalyze
\* ------------------------------------------------------------------------

VARIABLES
    mounted,          \* "no", "initializing" (awaiting createSession) or "yes"
    editorMessage,    \* useState message
    isLoading,        \* useState isLoading
    isInitializing,   \* useState isInitializing
    editorSessionId,  \* useState sessionId, 0 for null
    editorError,      \* useState error, "" for null
    hasAnalysis,      \* useState analysis is not null
    localStored,      \* localStorage[SESSION_STORAGE_KEY], 0 when absent
    runs,             \* the handleAnalyze calls made: where each one is
    sessionsMade      \* createSession calls that succeeded

editorVars == <<mounted, editorMessage, isLoading, isInitializing, editorSessionId,
                editorError, hasAnalysis, localStored, runs, sessionsMade>>

\* most Analyze triggers
MaxTriggers == 3

NullSession == 0
\* an id left in localStorage by an earlier visit
StoredSession == 99
AnalyzeOutcomes == {"ok", "failed", "Session not found"}

EditorInit ==
    /\ mounted = "no"
    /\ editorMessage = <<"a">>
    /\ isLoading = FALSE
    /\ isInitializing = TRUE
    /\ editorSessionId = NullSession
    /\ editorError = ""
    /\ hasAnalysis = FALSE
    /\ localStored = NullSession
    /\ runs = <<>>
    /\ sessionsMade = 0

\* the effect that persists sessionId once initialisation is over (lines 136-142)
Persisted(initializing, sid, stored) == IF initializing THEN stored ELSE sid

\* the mount effect (lines 103-133) up to its await: a stored id is taken
\* over, otherwise createSession is called
Mount(stored) ==
    /\ mounted = "no"
    /\ IF stored # NullSession
       THEN /\ mounted' = "yes"
            /\ editorSessionId' = stored
            /\ isInitializing' = FALSE
       ELSE /\ mounted' = "initializing"
            /\ UNCHANGED <<editorSessionId, isInitializing>>
    /\ localStored' = stored
    /\ UNCHANGED <<editorMessage, isLoading, editorError, hasAnalysis, runs, sessionsMade>>

\* the createSession call of the mount effect settles (lines 118-129)
MountSettles(ok) ==
    /\ mounted = "initializing"
    /\ mounted' = "yes"
    /\ isInitializing' = FALSE
    /\ IF ok
       THEN /\ sessionsMade' = sessionsMade + 1
            /\ editorSessionId' = sessionsMade + 1
            /\ localStored' = sessionsMade + 1
            /\ UNCHANGED editorError
       ELSE /\ editorError' = "Failed to initialize session"
            /\ editorSessionId' = NullSession
            /\ localStored' = NullSession
            /\ UNCHANGED sessionsMade
    /\ UNCHANGED <<editorMessage, isLoading, hasAnalysis, runs>>

\* the textarea's onChange; the textarea is rendered once initialisation is
\* over and is disabled while isLoading
EditMessage(text) ==
    /\ ~isInitializing /\ ~isLoading
    /\ text # editorMessage
    /\ editorMessage' = text
    /\ UNCHANGED <<mounted, isLoading, isInitializing, editorSessionId, editorError,
                   hasAnalysis, localStored, runs, sessionsMade>>

\* EditorPanel.handleAnalyze (lines 28-32), reached by the button's onClick
\* and by Ctrl/Cmd+Enter: message.trim() && !isLoading
CanTrigger == Trim(editorMessage) # <<>> /\ ~isLoading

\* an Analyze trigger: EditorPanel.handleAnalyze, then EditorView.handleAnalyze
\* up to its first await (lines 152-177)
Trigger ==
    /\ ~isInitializing
    /\ Len(runs) < MaxTriggers
    /\ CanTrigger
    /\ IF editorSessionId = NullSession
       THEN /\ runs' = Append(runs, [at |-> "createSession", sid |-> NullSession])
            /\ UNCHANGED <<isLoading, editorError, editorMessage>>
       ELSE /\ runs' = Append(runs, [at |-> "analyzeMessage", sid |-> editorSessionId])
            /\ isLoading' = TRUE
            /\ editorError' = ""
            /\ editorMessage' = Trim(editorMessage)
    /\ UNCHANGED <<mounted, isInitializing, editorSessionId, hasAnalysis, localStored, sessionsMade>>

\* the createSession call of run r settles (lines 162-177)
CreateSettles(r, ok) ==
    /\ r \in 1..Len(runs)
    /\ runs[r].at = "createSession"
    /\ IF ok
       THEN /\ sessionsMade' = sessionsMade + 1
            /\ editorSessionId' = sessionsMade + 1
            /\ localStored' = Persisted(isInitializing, sessionsMade + 1, localStored)
            /\ runs' = [runs EXCEPT ![r] = [at |-> "analyzeMessage", sid |-> sessionsMade + 1]]
            /\ isLoading' = TRUE
            /\ editorError' = ""
       ELSE /\ editorError' = "Failed to create session"
            /\ runs' = [runs EXCEPT ![r] = [at |-> "settled", sid |-> NullSession]]
            /\ UNCHANGED <<sessionsMade, editorSessionId, localStored, isLoading>>
    /\ UNCHANGED <<mounted, editorMessage, isInitializing, hasAnalysis>>

\* the analyzeMessage call of run r settles (lines 177-199); on success the
\* response carries the session the backend used
AnalyzeSettles(r, outcome) ==
    /\ r \in 1..Len(runs)
    /\ runs[r].at = "analyzeMessage"
    /\ IF outcome = "ok"
       THEN /\ hasAnalysis' = TRUE
            /\ editorSessionId' = runs[r].sid
            /\ localStored' = Persisted(isInitializing, runs[r].sid, localStored)
            /\ isLoading' = FALSE
            /\ runs' = [runs EXCEPT ![r] = [at |-> "settled", sid |-> runs[r].sid]]
            /\ UNCHANGED editorError
       ELSE /\ hasAnalysis' = FALSE
            /\ editorError' = outcome
            /\ IF outcome = "Session not found"
               THEN /\ runs' = [runs EXCEPT ![r] = [at |-> "recreate", sid |-> runs[r].sid]]
                    /\ UNCHANGED isLoading
               ELSE /\ runs' = [runs EXCEPT ![r] = [at |-> "settled", sid |-> runs[r].sid]]
                    /\ isLoading' = FALSE
            /\ UNCHANGED <<editorSessionId, localStored>>
    /\ UNCHANGED <<mounted, editorMessage, isInitializing, sessionsMade>>

\* the createSession call made after a session error settles (lines 189-199)
RecreateSettles(r, ok) ==
    /\ r \in 1..Len(runs)
    /\ runs[r].at = "recreate"
    /\ IF ok
       THEN /\ sessionsMade' = sessionsMade + 1
            /\ editorSessionId' = sessionsMade + 1
            /\ localStored' = Persisted(isInitializing, sessionsMade + 1, localStored)
       ELSE UNCHANGED <<sessionsMade, editorSessionId, localStored>>
    /\ isLoading' = FALSE
    /\ runs' = [runs EXCEPT ![r] = [at |-> "settled", sid |-> runs[r].sid]]
    /\ UNCHANGED <<mounted, editorMessage, isInitializing, editorError, hasAnalysis>>

\* the error toast is clicked or its timer fires (lines 145-150, 298)
DismissError ==
    /\ editorError # ""
    /\ editorError' = ""
    /\ UNCHANGED <<mounted, editorMessage, isLoading, isInitializing, editorSessionId,
                   hasAnalysis, localStored, runs, sessionsMade>>

serviceVars == <<loggerVars, managerVars, registryVars, editorVars>>

auxVars == <<pureVars, tape, history, serviceVars>>

vars == <<genVars, handlerVars, auxVars>>

\* ------------------------------------------------------------------------
\* Spec: a caller makes generateWithRetry calls on one pipeline
\* ------------------------------------------------------------------------

Pipeline == "intent"

Init ==
    /\ GenInit /\ HandlerInit /\ PureInit /\ PairInit /\ NormInit
    /\ LoggerInit /\ ManagerInit /\ RegistryInit /\ EditorInit

Call ==
    /\ \E inp \in RetryInputs : StartRetry(Pipeline, inp)
    /\ UNCHANGED <<handlerVars, auxVars>>

Generate ==
    /\ \E mo \in ModelOutcomes : Attempt(Pipeline, mo)
    /\ UNCHANGED <<handlerVars, auxVars>>

Next == Call \/ Generate

Spec == Init /\ [][Next]_vars

\* ------------------------------------------------------------------------
\* BatchSpec: the analyze handler serves requests, four pipelines each
\* ------------------------------------------------------------------------

ProvidedIds == {"", "s1", UnknownSession}

Analyze ==
    /\ \E m \in Messages, sid \in ProvidedIds : Receive(m, sid, NullContext, "none")
    /\ UNCHANGED auxVars

FacetAttempt ==
    /\ \E f \in Facets, mo \in BatchOutcomes : FacetStep(f, mo)
    /\ UNCHANGED auxVars

Answer ==
    /\ Respond(FALSE)
    /\ UNCHANGED auxVars

BatchNext == Analyze \/ FacetAttempt \/ Answer

BatchSpec == Init /\ [][BatchNext]_vars

\* ------------------------------------------------------------------------
\* HandlerSpec: requests are handled while sessionManager calls may throw
\* and formatContext may return either blank; each pipeline's model call
\* succeeds or fails
\* ------------------------------------------------------------------------

HandlerOutcomes == {ModelSaid(Raw("json", vOk)), ModelThrew}

Arrive ==
    /\ \E m \in Messages, sid \in ProvidedIds, blank \in BlankContexts, fault \in Faults :
           Receive(m, sid, blank, fault)
    /\ UNCHANGED auxVars

FacetTry ==
    /\ \E f \in Facets, mo \in HandlerOutcomes : FacetStep(f, mo)
    /\ UNCHANGED auxVars

Finish ==
    /\ \E storeThrows \in BOOLEAN : Respond(storeThrows)
    /\ UNCHANGED auxVars

HandlerNext == Arrive \/ FacetTry \/ Finish

HandlerSpec == Init /\ [][HandlerNext]_vars

\* the code's scheduling: an awaited generation settles, so the loop goes on
FairSpec == Init /\ [][Next]_vars /\ WF_vars(Generate)

\* ------------------------------------------------------------------------
\* TruncSpec: isTruncated on every text over Alphabet up to MaxTextLen
\* TreeSpec: validateNoTruncation on every structure up to MaxDepth
\* ------------------------------------------------------------------------

TypeText ==
    /\ Type
    /\ UNCHANGED <<genVars, handlerVars, tape, history, serviceVars>>

DetectText ==
    /\ Detect
    /\ UNCHANGED <<genVars, handlerVars, tape, history, serviceVars>>

TruncNext == TypeText \/ DetectText

TruncSpec == Init /\ [][TruncNext]_vars

NestDoc ==
    /\ Nest
    /\ UNCHANGED <<genVars, handlerVars, tape, history, serviceVars>>

ValidateDoc ==
    /\ Validate
    /\ UNCHANGED <<genVars, handlerVars, tape, history, serviceVars>>

TreeNext == NestDoc \/ ValidateDoc

TreeSpec == Init /\ [][TreeNext]_vars

\* ------------------------------------------------------------------------
\* PairSpec: a run with logger and sessionId beside a run without them
\* ------------------------------------------------------------------------

CallTwice ==
    /\ \E m \in Messages, c \in Contexts, d \in PairDeps, a \in AnalysisTypeArgs, b \in BOOLEAN :
           StartPair(m, c, d, a, b)
    /\ UNCHANGED <<handlerVars, pureVars, history, serviceVars>>

GenerateLogged ==
    /\ \E mo \in PairOutcomes : LeadStep(mo)
    /\ UNCHANGED <<handlerVars, pureVars, history, serviceVars>>

GenerateUnlogged ==
    /\ FollowStep
    /\ UNCHANGED <<handlerVars, pureVars, history, serviceVars>>

PairNext == CallTwice \/ GenerateLogged \/ GenerateUnlogged

PairSpec == Init /\ [][PairNext]_vars

\* ------------------------------------------------------------------------
\* ImpactSpec: the impact pipeline on outputs with declared and invented
\* severity values
\* ------------------------------------------------------------------------

CallImpact ==
    /\ \E inp \in ImpactInputs : StartRetry("impact", inp)
    /\ UNCHANGED <<handlerVars, auxVars>>

GenerateImpact ==
    /\ \E mo \in ImpactOutcomes : Attempt("impact", mo)
    /\ UNCHANGED <<handlerVars, auxVars>>

ImpactNext == CallImpact \/ GenerateImpact

ImpactSpec == Init /\ [][ImpactNext]_vars

\* ------------------------------------------------------------------------
\* NormSpec: normalization applied again and again to accepted structures
\* ------------------------------------------------------------------------

AcceptResult ==
    /\ \E x \in AcceptedResults : Accept(x)
    /\ UNCHANGED <<genVars, handlerVars, pureVars, tape, serviceVars>>

Normalize ==
    /\ NormalizePass
    /\ UNCHANGED <<genVars, handlerVars, pureVars, tape, serviceVars>>

NormNext == AcceptResult \/ Normalize

NormSpec == Init /\ [][NormNext]_vars

\* ------------------------------------------------------------------------
\* LoggerSpec: log calls for several sessions while appends settle in any
\* order and the file system may fail
\* ------------------------------------------------------------------------

Log ==
    /\ \E sid \in LogSessions, resolveThrows \in BOOLEAN : StartLog(sid, resolveThrows)
    /\ UNCHANGED <<genVars, handlerVars, pureVars, tape, history, managerVars, registryVars, editorVars>>

TimePasses ==
    /\ Tick
    /\ UNCHANGED <<genVars, handlerVars, pureVars, tape, history, managerVars, registryVars, editorVars>>

FileSystem ==
    /\ \E op \in inflight, ok \in BOOLEAN : AppendSettles(op, ok)
    /\ UNCHANGED <<genVars, handlerVars, pureVars, tape, history, managerVars, registryVars, editorVars>>

LoggerNext == Log \/ TimePasses \/ FileSystem

LoggerSpec == Init /\ [][LoggerNext]_vars

\* ------------------------------------------------------------------------
\* ManagerSpec: any sequence of getInstance, getSessionManager and reset
\* ------------------------------------------------------------------------

GetInstance ==
    /\ \E config \in ManagerConfigs : getInstance("getInstance", config)
    /\ UNCHANGED <<genVars, handlerVars, pureVars, tape, history, loggerVars, registryVars, editorVars>>

GetSessionManager ==
    /\ getSessionManager
    /\ UNCHANGED <<genVars, handlerVars, pureVars, tape, history, loggerVars, registryVars, editorVars>>

Reset ==
    /\ reset
    /\ UNCHANGED <<genVars, handlerVars, pureVars, tape, history, loggerVars, registryVars, editorVars>>

ManagerNext == GetInstance \/ GetSessionManager \/ Reset

ManagerSpec == Init /\ [][ManagerNext]_vars

\* ------------------------------------------------------------------------
\* RegistrySpec: any sequence of getLLMLogger and resetLLMLogger calls while
\* the current logger is used for sessions
\* ------------------------------------------------------------------------

GetLogger ==
    /\ \E logDir \in LogDirArgs, modelPath \in ModelPathArgs : getLLMLogger(logDir, modelPath)
    /\ UNCHANGED <<genVars, handlerVars, pureVars, tape, history, loggerVars, managerVars, editorVars>>

ResetLogger ==
    /\ resetLLMLogger
    /\ UNCHANGED <<genVars, handlerVars, pureVars, tape, history, loggerVars, managerVars, editorVars>>

UseLogger ==
    /\ \E sid \in LogSessions : MapSession(sid)
    /\ UNCHANGED <<genVars, handlerVars, pureVars, tape, history, loggerVars, managerVars, editorVars>>

RegistryNext == GetLogger \/ ResetLogger \/ UseLogger

RegistrySpec == Init /\ [][RegistryNext]_vars

\* ------------------------------------------------------------------------
\* EditorSpec: the editor page is loaded and used while createSession and
\* analyzeMessage calls settle in any order
\* ------------------------------------------------------------------------

PageLoad ==
    /\ \E stored \in {NullSession, StoredSession} : Mount(stored)
    /\ UNCHANGED <<genVars, handlerVars, pureVars, tape, history, loggerVars, managerVars, registryVars>>

SessionReady ==
    /\ \E ok \in BOOLEAN : MountSettles(ok)
    /\ UNCHANGED <<genVars, handlerVars, pureVars, tape, history, loggerVars, managerVars, registryVars>>

Typing ==
    /\ \E text \in {<<>>, <<" ">>, <<"a">>} : EditMessage(text)
    /\ UNCHANGED <<genVars, handlerVars, pureVars, tape, history, loggerVars, managerVars, registryVars>>

AnalyzeTrigger ==
    /\ Trigger
    /\ UNCHANGED <<genVars, handlerVars, pureVars, tape, history, loggerVars, managerVars, registryVars>>

Network ==
    /\ \E r \in 1..Len(runs) :
           \/ \E ok \in BOOLEAN : CreateSettles(r, ok)
           \/ \E outcome \in AnalyzeOutcomes : AnalyzeSettles(r, outcome)
           \/ \E ok \in BOOLEAN : RecreateSettles(r, ok)
    /\ UNCHANGED <<genVars, handlerVars, pureVars, tape, history, loggerVars, managerVars, registryVars>>

Dismiss ==
    /\ DismissError
    /\ UNCHANGED <<genVars, handlerVars, pureVars, tape, history, loggerVars, managerVars, registryVars>>

EditorNext == PageLoad \/ SessionReady \/ Typing \/ AnalyzeTrigger \/ Network \/ Dismiss

EditorSpec == Init /\ [][EditorNext]_vars

\* ------------------------------------------------------------------------
\* Properties
\* ------------------------------------------------------------------------

CallsOf(f) == {calls[f][i] : i \in 1..Len(calls[f])}

\* C1: one generateWithRetry call prompts the model at most two times,
\* whatever the failure reasons are.
C1_AtMostTwoPrompts == \A f \in Facets : Len(calls[f]) <= 2

C1_Witness ==
    /\ pc[Pipeline] = "exhausted"
    /\ Len(calls[Pipeline]) = 2
    /\ calls[Pipeline][1].error.kind = "schema"
    /\ calls[Pipeline][2].error.kind = "model"

\* C2 (as claimed): output that parses, passes the validator and has a
\* truncated string leaf makes generateWithSchema throw a truncation error;
\* no value is returned for it.
C2_TruncatedNeverReturned ==
    \A f \in Facets : \A c \in CallsOf(f) :
        LET g == grammarParse(c.raw.resp)
        IN  (~c.raw.threw /\ g.ok /\ validator(g.val) /\ validateNoTruncation(g.val) # NoPath)
                => (~c.returned /\ c.error.kind = "truncated")

\* m's reason is part of the message e
Carries(e, m) ==
    /\ e.kind = m.kind
    /\ e.detail = m.detail
    /\ Len(m.pre) <= Len(e.pre)
    /\ SubSeq(e.pre, Len(e.pre) - Len(m.pre) + 1, Len(e.pre)) = m.pre

LastInteraction ==
    IF sessionId \in DOMAIN sessions /\ sessions[sessionId] # <<>>
    THEN sessions[sessionId][Len(sessions[sessionId])]
    ELSE [message |-> "", analysis |-> [f \in Facets |-> NoValue]]

\* C4: the batch is all-or-nothing: the handler gets a result, stores the
\* interaction and sends the success response only when all four facets
\* succeeded; when a facet is exhausted the request ends in next(error) and
\* no response carries the results of the other facets.
BatchSettled ==
    /\ hpc = "analyzing" => sent = <<>> /\ passed = <<>>
    /\ hpc = "done" =>
          /\ (sent # <<>>) <=> (\A f \in Facets : pc[f] = "success")
          /\ (sent # <<>>) =>
                /\ Len(sent) = 1 /\ passed = <<>>
                /\ sent[1].success
                /\ \A f \in Facets : sent[1].data[f] = result[f] /\ validator(result[f])
                /\ LastInteraction = [message |-> req.message, analysis |-> sent[1].data]
          /\ (\E f \in Facets : pc[f] = "exhausted") =>
                /\ sent = <<>>
                /\ Len(passed) = 1
                /\ passed[1] = {f \in Facets : pc[f] = "exhausted"}

BatchFailureStep ==
    (hpc = "analyzing" /\ hpc' = "done" /\ \E f \in Facets : pc[f] = "exhausted") =>
        sessions' = sessions /\ sent' = <<>>

C4_BatchAllOrNothing == []BatchSettled /\ [][BatchFailureStep]_vars

C4_Witness ==
    /\ hpc = "done"
    /\ pc["intent"] = "success" /\ pc["tone"] = "success" /\ pc["impact"] = "success"
    /\ pc["alternatives"] = "exhausted"
    /\ sent = <<>> /\ passed # <<>>

MachineState(f) ==
    /\ pc[f] \in {"idle", "running", "success", "exhausted"}
    /\ pc[f] = "running" => attempt[f] \in {1, 2} /\ Len(warned[f]) = attempt[f] - 1
    /\ (Len(calls[f]) >= 1 /\ calls[f][1].returned) =>
          /\ Len(calls[f]) = 1
          /\ pc[f] = "success" /\ result[f] = calls[f][1].value
    /\ (Len(calls[f]) = 2 /\ calls[f][2].returned) =>
          /\ ~calls[f][1].returned
          /\ pc[f] = "success" /\ result[f] = calls[f][2].value
    /\ pc[f] = "success" => calls[f][Len(calls[f])].returned
    /\ pc[f] = "exhausted" =>
          /\ Len(warned[f]) = 2
          /\ \A c \in CallsOf(f) : ~c.returned

MachineStep(f) ==
    /\ (pc[f] = "running" /\ attempt[f] = 1 /\ <<pc[f], attempt[f]>> # <<pc'[f], attempt'[f]>>) =>
          \/ pc'[f] = "success"
          \/ pc'[f] = "running" /\ attempt'[f] = 2
    /\ (pc[f] = "running" /\ attempt[f] = 2 /\ <<pc[f], attempt[f]>> # <<pc'[f], attempt'[f]>>) =>
          pc'[f] \in {"success", "exhausted"}
    /\ (pc[f] # "running" /\ pc'[f] # pc[f]) =>
          pc'[f] = "running" /\ attempt'[f] = 1 /\ calls'[f] = <<>>

\* C6: the retry machine follows Attempt1 -> {Success, Attempt2} ->
\* {Success, Exhausted}: a successful attempt 1 ends the call with its value,
\* a successful attempt 2 with its value, Exhausted comes only after two
\* failed attempts, and every started call ends in Success or Exhausted.
C6_RetryMachine ==
    /\ [](\A f \in Facets : MachineState(f))
    /\ [][\A f \in Facets : MachineStep(f)]_vars
    /\ \A f \in {Pipeline} : (pc[f] = "running") ~> (pc[f] \in {"success", "exhausted"})

C6_Witness ==
    /\ pc[Pipeline] = "success"
    /\ Len(calls[Pipeline]) = 2
    /\ ~calls[Pipeline][1].returned
    /\ result[Pipeline] = calls[Pipeline][2].value

\* C7 (as claimed): the lenient fallback parse is tried at most once per call
\* and only when grammar parsing failed with non-empty raw output; never
\* after a validator failure or a truncation hit, nor without output.
C7_FallbackOnlyAfterGrammarFailure ==
    \A f \in Facets : \A c \in CallsOf(f) :
        /\ c.fallbackParses <= 1
        /\ c.fallbackParses = 1 =>
              /\ HasRaw(c.raw)
              /\ ~grammarParse(c.raw.resp).ok
              /\ ~c.validated /\ ~c.truncChecked

\* C8: a value obtained by the fallback parse is returned only if the
\* validator accepts it; when the validator rejects it the call throws the
\* original error.
C8_FallbackValueValidated ==
    \A f \in Facets : \A c \in CallsOf(f) :
        LET m == parseJSON(c.raw.resp)
        IN  /\ c.viaFallback => (c.returned /\ c.value = m.val /\ ValidatorErrors(c.value) = {})
            /\ (c.fallbackParses = 1 /\ m.ok /\ ValidatorErrors(m.val) # {}) =>
                  /\ ~c.returned
                  /\ c.error = TryBlock(input[f].deps, input[f].analysisType, c.raw).error

C8_Witness ==
    /\ Len(calls[Pipeline]) = 2
    /\ calls[Pipeline][1].raw = ModelSaid(Raw("fenced", vEmptyArray))
    /\ ~calls[Pipeline][1].returned /\ calls[Pipeline][1].fallbackOk
    /\ calls[Pipeline][2].raw = ModelSaid(Raw("fenced", vOk))
    /\ calls[Pipeline][2].viaFallback

\* C9: when grammar parsing fails and the fallback parse fails too, the call
\* throws the parse error (unparseable output) and returns no value.
C9_UnparseableThrows ==
    \A f \in Facets : \A c \in CallsOf(f) :
        (~c.raw.threw /\ ~grammarParse(c.raw.resp).ok /\ ~parseJSON(c.raw.resp).ok) =>
            /\ ~c.returned
            /\ c.value = NoValue
            /\ c.error = GrammarParseErrorMsg

C9_Witness ==
    \E c \in CallsOf(Pipeline) :
        /\ c.raw = ModelSaid(Raw("garbage", NoValue))
        /\ c.fallbackParses = 1 /\ ~c.fallbackOk
        /\ c.error.kind = "parse"

\* C10 (as claimed): when the parsed output violates the validator (empty
\* array, empty string), whether it was parsed by the grammar or by the
\* fallback parse, the call throws "Validation failed" with the formatted
\* schema errors; no value that violates the validator is ever returned.
C10_SchemaViolationThrows ==
    \A f \in Facets : \A c \in CallsOf(f) :
        LET g == grammarParse(c.raw.resp)
            m == parseJSON(c.raw.resp)
        IN  /\ (~c.raw.threw /\ g.ok /\ ValidatorErrors(g.val) # {}) =>
                  /\ ~c.returned
                  /\ c.error = Msg(<<"Validation failed">>, "schema", ValidatorErrors(g.val))
            /\ (c.fallbackParses = 1 /\ ~g.ok /\ m.ok /\ ValidatorErrors(m.val) # {}) =>
                  /\ ~c.returned
                  /\ c.error = Msg(<<"Validation failed">>, "schema", ValidatorErrors(m.val))
            /\ c.returned => ValidatorErrors(c.value) = {}

\* validateNoTruncation threw in the call c
TruncationHit(c) ==
    /\ c.truncChecked
    /\ validateNoTruncation(grammarParse(c.raw.resp).val) # NoPath

\* C11 (as claimed): a truncation hit on attempt 1 makes attempt 1 fail with
\* the truncation error, generateWithRetry records it, and a second prompt,
\* when issued, is the retry prompt built from the truncation error message.
C11_TruncationHitRetried ==
    \A f \in Facets :
        (Len(calls[f]) >= 1 /\ TruncationHit(calls[f][1])) =>
            /\ ~calls[f][1].returned
            /\ calls[f][1].error.kind = "truncated"
            /\ Len(warned[f]) >= 1 /\ warned[f][1].msg.kind = "truncated"
            /\ pc[f] # "success" \/ Len(calls[f]) = 2
            /\ Len(calls[f]) >= 2 => calls[f][2].prompt.reason.kind = "truncated"

\* C14: an error thrown by generateWithRetry to its caller is the exhaustion
\* error "Failed after 2 attempts: <message of attempt 2>", thrown after two
\* attempts failed; while only attempt 1 has failed (schema violation,
\* unparseable output, model error or a throwing prompt builder) nothing is
\* thrown and the loop goes on.
C14_OnlyExhaustionEscapes ==
    \A f \in Facets :
        /\ thrown[f] # NoMsg =>
              /\ pc[f] = "exhausted"
              /\ Len(warned[f]) = 2
              /\ warned[f][1].attempt = 1 /\ warned[f][2].attempt = 2
              /\ thrown[f] = Prefixed("Failed after attempts", warned[f][2].msg)
              /\ thrown[f] \notin {warned[f][1].msg, warned[f][2].msg}
        /\ (Len(warned[f]) = 1 /\ pc[f] # "idle") =>
              /\ thrown[f] = NoMsg
              /\ pc[f] \in {"running", "success"}
        /\ pc[f] = "exhausted" <=> thrown[f] # NoMsg

C14_Witness ==
    /\ pc[Pipeline] = "exhausted"
    /\ input[Pipeline].builderThrows
    /\ calls[Pipeline] = <<>>
    /\ warned[Pipeline][1].msg = BuilderErrorMsg
    /\ thrown[Pipeline] = ExhaustedMsg(BuilderErrorMsg)

C12_WitnessSentence ==
    /\ verdict = "complete"
    /\ sample = <<"A", "{", "a", ".">>

\* the texts of the string-valued leaves of a structure, at any depth
RECURSIVE StringLeaves(_)
StringLeaves(d) ==
    IF d.t = "str" THEN {d.v}
    ELSE IF d.t = "arr" THEN UNION {StringLeaves(d.v[i]) : i \in 1..Len(d.v)}
    ELSE IF d.t = "obj" THEN UNION {StringLeaves(d.v[i][2]) : i \in 1..Len(d.v)}
    ELSE {}

\* C13: validateNoTruncation throws if and only if some string-valued leaf of
\* the structure, at any depth inside arrays and objects, is flagged by
\* isTruncated; a structure whose only leaves are numbers, booleans and null
\* never makes it throw.
C13_ThrowsIffTruncatedLeaf ==
    checked =>
        /\ truncPath # NoPath <=> \E s \in StringLeaves(doc) : isTruncated(s)
        /\ StringLeaves(doc) = {} => truncPath = NoPath

C13_Witness ==
    /\ checked
    /\ depth = MaxDepth
    /\ doc = Obj(<< <<"k1", Num>>, <<"k2", Arr(<<Null, Str(CutOff)>>)>> >>)
    /\ truncPath = <<"root", ".", "k2", "[1]">>

\* attempts a run has finished
StepsDone(f) == Len(warned[f]) + (IF pc[f] = "success" THEN 1 ELSE 0)

\* what a run does apart from logging: its state, the prompts it issued, the
\* outcome of each generation, the value returned or the error thrown
Observable(f) ==
    [pc |-> pc[f], attempt |-> attempt[f], lastError |-> lastError[f],
     prompts |-> [i \in 1..Len(calls[f]) |-> calls[f][i].prompt],
     outcomes |-> [i \in 1..Len(calls[f]) |->
                      <<calls[f][i].returned, calls[f][i].value, calls[f][i].error>>],
     warned |-> warned[f], result |-> result[f], thrown |-> thrown[f]]

\* C15: a run of generateWithRetry with a logger and a sessionId, whose log
\* writes may all fail, and a run of the same call with neither, fed the
\* same model outputs, have after every attempt issued the same prompts,
\* made the same number of attempts and reached the same value or error.
C15_SessionIdHasNoEffect ==
    (pc[Logged] # "idle" /\ StepsDone(Unlogged) = Len(tape)) =>
        Observable(Logged) = Observable(Unlogged)

C15_Witness ==
    /\ input[Logged].deps = FailingDeps(TRUE, "s1")
    /\ input[Logged].analysisType = "intent"
    /\ pc[Logged] = "exhausted" /\ pc[Unlogged] = "exhausted"
    /\ Len(tape) = 2
    /\ Len(log[Logged]) > 0 /\ log[Unlogged] = <<>>
    /\ thrown[Logged] = thrown[Unlogged]

\* the outcome of facet f's pipeline, from its own generations alone
OwnOutcome(f) ==
    IF calls[f] # <<>> /\ calls[f][Len(calls[f])].returned
    THEN [ok |-> TRUE, value |-> calls[f][Len(calls[f])].value]
    ELSE [ok |-> FALSE, value |-> NoValue]

\* C16 (states): the batch has an outcome only when all four pipelines are
\* settled; the outcome is a function of the four pipelines' own outcomes
\* (all values, or the set of exhausted facets), whatever order they settled
\* in; after a facet is exhausted, a pipeline still running can take its
\* next attempt.
BatchJoinState ==
    /\ hpc = "done" =>
          /\ \A f \in Facets : Settled(f)
          /\ IF \A f \in Facets : OwnOutcome(f).ok
             THEN /\ passed = <<>>
                  /\ sent = <<[success |-> TRUE, sessionId |-> sessionId,
                               data |-> [f \in Facets |-> OwnOutcome(f).value]]>>
             ELSE /\ sent = <<>>
                  /\ passed = <<{f \in Facets : ~OwnOutcome(f).ok}>>
    /\ hpc = "analyzing" =>
          /\ sent = <<>> /\ passed = <<>>
          /\ \A f, g \in Facets :
                (pc[g] = "exhausted" /\ pc[f] = "running") => ENABLED FacetStep(f, ModelThrew)

\* C16 (steps): the step that gives the batch its outcome is taken with all
\* four pipelines settled and changes none of them; a step taken while the
\* batch is awaited never takes a pipeline out of the run (a running one
\* stays running or settles, a settled one keeps its result although it may
\* end up discarded), whether or not some facet is already exhausted.
BatchJoinStep ==
    /\ (hpc = "analyzing" /\ hpc' = "done") =>
          /\ \A f \in Facets : Settled(f)
          /\ UNCHANGED genVars
    /\ (hpc = "analyzing" /\ hpc' = "analyzing") =>
          \A f \in Facets :
              /\ pc[f] = "running" => pc'[f] \in {"running", "success", "exhausted"}
              /\ Settled(f) => pc'[f] = pc[f] /\ result'[f] = result[f] /\ calls'[f] = calls[f]

C16_BatchIsPureJoin == []BatchJoinState /\ [][BatchJoinStep]_vars

C16_Witness ==
    /\ hpc = "done"
    /\ pc["intent"] = "exhausted"
    /\ \A f \in Facets \ {"intent"} : pc[f] = "success" /\ result[f] # NoValue
    /\ Len(calls["alternatives"]) = 2
    /\ sent = <<>> /\ passed = <<{"intent"}>>

\* C17: normalization is idempotent: for every accepted structure x, every
\* further pass over normalize(x) returns normalize(x) unchanged.
C17_NormalizeIdempotent ==
    \A i \in 3..Len(history) : history[i] = history[2]

C17_Witness ==
    /\ Len(history) = 3
    /\ history[1] = Accepted("tone", <<Emotion("neutral", "positive"), Emotion("frustrated", "positive"),
                                      Emotion("neutral", "neutral")>>, NoValue)
    /\ history[2] = Accepted("tone", <<Emotion("frustrated", "negative")>>, NoValue)
    /\ history[3] = history[2]

\* the model output of call c holds a severity outside the declared set
InventedSeverity(c) ==
    /\ ~c.raw.threw
    /\ parseJSON(c.raw.resp).ok
    /\ HasField(parseJSON(c.raw.resp).val, "severity")
    /\ Field(parseJSON(c.raw.resp).val, "severity").v \notin DeclaredSeverities

\* C18 (as claimed): when the model output holds a severity outside the
\* declared set, the generation is accepted and the facet's outcome is Valid
\* with the severity mapped to a declared value; it is never Invalid.
C18_InventedEnumIsValid ==
    /\ \A c \in CallsOf("impact") :
          InventedSeverity(c) =>
              /\ c.returned
              /\ Field(normalizeImpactMetrics(c.value), "severity").v
                    = CoerceSeverity(Field(parseJSON(c.raw.resp).val, "severity").v)
    /\ (calls["impact"] # <<>> /\ pc["impact"] # "running"
            /\ InventedSeverity(calls["impact"][Len(calls["impact"])])) =>
          /\ ImpactOutcome.valid
          /\ Field(ImpactOutcome.value, "severity").v \in DeclaredSeverities

\* the positions in `events` of the calls of operation op
Calls(op) == {i \in 1..Len(events) : events[i].op = op}

\* C19 (steps): when a request is received with the id of an existing
\* session, that session is used and none is created; with no id, or an id
\* that is not found, exactly one session is created and used; the context
\* is read from the session used.
SessionResolutionStep ==
    (hpc # "analyzing" /\ hpc' = "analyzing") =>
        /\ IF req'.sessionId # "" /\ req'.sessionId \in DOMAIN sessions
           THEN /\ sessionId' = req'.sessionId
                /\ created' = created
                /\ sessions' = sessions
                /\ \A i \in 1..Len(events') : events'[i].op # "createSession"
           ELSE /\ sessionId' \notin DOMAIN sessions
                /\ DOMAIN sessions' = DOMAIN sessions \cup {sessionId'}
                /\ created' = created + 1
                /\ sessions'[sessionId'] = <<>>
                /\ \A id \in DOMAIN sessions : sessions'[id] = sessions[id]
                /\ \E i \in 1..Len(events') :
                      /\ events'[i] = Event("createSession", sessionId')
                      /\ \A j \in 1..Len(events') : events'[j].op = "createSession" => j = i
        /\ ContextArg(context') = ContextArg(formatContext(sessions', sessionId', NullContext))
        /\ \E i \in 1..Len(events') : events'[i] = Event("formatContext", sessionId')

\* C19 (states): the sessionId of a success response is the id the context
\* was read with and the interaction was added with, and the interaction is
\* in that session.
SessionOfResponse ==
    sent # <<>> =>
        /\ sent[1].sessionId = sessionId
        /\ \A i \in Calls("formatContext") \cup Calls("addInteraction") \cup Calls("analyzeBatched") :
              events[i].sid = sent[1].sessionId
        /\ Calls("formatContext") # {} /\ Calls("addInteraction") # {}
        /\ sessionId \in DOMAIN sessions
        /\ sessions[sessionId] # <<>>
        /\ sessions[sessionId][Len(sessions[sessionId])]
              = [message |-> req.message, analysis |-> sent[1].data]

C19_SessionResolution == []SessionOfResponse /\ [][SessionResolutionStep]_vars

C19_Witness ==
    /\ served = 2
    /\ req.sessionId = UnknownSession
    /\ sessionId = "s2"
    /\ created = 2
    /\ sent # <<>> /\ sent[1].sessionId = "s2"
    /\ Len(sessions["s2"]) = 1

\* C20 (states): for every request the context is read before analyzeBatched
\* starts; addInteraction is called exactly once when analyzeBatched
\* returned, after it returned and before the response is sent, and stores
\* the request's message with the returned data; it is not called while the
\* analysis runs nor when analyzeBatched threw.
HandlerOrder ==
    /\ hpc # "idle" =>
          /\ Cardinality(Calls("formatContext")) = 1
          /\ Cardinality(Calls("analyzeBatched")) = 1
          /\ \A i \in Calls("formatContext"), j \in Calls("analyzeBatched") : i < j
    /\ hpc = "analyzing" => Calls("addInteraction") = {}
    /\ sent # <<>> =>
          /\ Cardinality(Calls("addInteraction")) = 1
          /\ Cardinality(Calls("res.json")) = 1
          /\ \A i \in Calls("analyzeBatched returned"), j \in Calls("addInteraction"),
                k \in Calls("res.json") : i < j /\ j < k
          /\ Calls("analyzeBatched returned") # {}
          /\ LastInteraction = [message |-> req.message, analysis |-> sent[1].data]
    /\ (hpc = "done" /\ sent = <<>>) =>
          /\ Calls("addInteraction") = {}
          /\ Calls("analyzeBatched threw") # {}

\* C20 (steps): the step that ends a failed request leaves the sessions as
\* they were; the step that ends a successful one adds one interaction.
HandlerOrderStep ==
    (hpc = "analyzing" /\ hpc' = "done") =>
        IF sent' # <<>>
        THEN Len(sessions'[sessionId]) = Len(sessions[sessionId]) + 1
        ELSE sessions' = sessions

C20_HandlerOrdering == []HandlerOrder /\ [][HandlerOrderStep]_vars

C20_Witness ==
    /\ hpc = "done"
    /\ context = "Previous messages"
    /\ sent # <<>>
    /\ [i \in 1..Len(events) |-> events[i].op] =
          <<"getSession", "formatContext", "getInteractions", "analyzeBatched",
            "analyzeBatched returned", "addInteraction", "res.json">>

\* how often character c occurs in text t
RECURSIVE Occurrences(_, _)
Occurrences(t, c) ==
    IF t = <<>> THEN 0
    ELSE (IF Head(t) = c THEN 1 ELSE 0) + Occurrences(Tail(t), c)

\* C25: isTruncated(s) is true exactly when trim(s) ends with an ASCII letter
\* followed by '{', '[' or ']', or trim(s) ends with '{' or '[' and holds
\* more '{' than '}' or more '[' than ']'; it is false for empty and
\* whitespace-only text and for text whose last non-space character is none
\* of '{', '[', ']'.
C25_TruncatedExactly ==
    verdict # "unchecked" =>
        LET t == Trim(sample)
            n == Len(t)
            letterThenBracket ==
                n >= 2 /\ t[n - 1] \in {"a", "A"} /\ t[n] \in {"{", "[", "]"}
            openAtEnd ==
                /\ n >= 1 /\ t[n] \in {"{", "["}
                /\ \/ Occurrences(t, "{") > Occurrences(t, "}")
                   \/ Occurrences(t, "[") > Occurrences(t, "]")
        IN  /\ verdict = "truncated" <=> (letterThenBracket \/ openAtEnd)
            /\ n = 0 => verdict = "complete"
            /\ (n >= 1 /\ t[n] \notin {"{", "[", "]"}) => verdict = "complete"

C25_Witness ==
    /\ verdict = "truncated"
    /\ sample = <<"{", "}", "A", "]">>

\* the string leaves of a structure with their locations, in depth-first
\* order, children in insertion order
RECURSIVE LeafList(_, _)
RECURSIVE ChildLeaves(_, _, _)
ChildLeaves(d, at, i) ==
    IF i > Len(d.v) THEN <<>>
    ELSE (IF d.t = "arr"
          THEN LeafList(d.v[i], at \o <<"[" \o ToString(i - 1) \o "]">>)
          ELSE LeafList(d.v[i][2], at \o <<".", d.v[i][1]>>))
         \o ChildLeaves(d, at, i + 1)

LeafList(d, at) ==
    IF d.t = "str" THEN <<[at |-> at, text |-> d.v]>>
    ELSE IF d.t \in {"arr", "obj"} THEN ChildLeaves(d, at, 1)
    ELSE <<>>

IsFlagged(leaf) == isTruncated(leaf.text)

\* C27: the path in the error of validateNoTruncation is that of the first
\* truncated string leaf in depth-first, insertion-order traversal: 'root',
\* then '.key' for each object field and '[index]', counted from 0, for each
\* array item on the way down.
C27_PathOfFirstTruncatedLeaf ==
    checked =>
        LET flagged == SelectSeq(LeafList(doc, <<"root">>), IsFlagged)
        IN  truncPath = IF flagged = <<>> THEN NoPath ELSE flagged[1].at

C27_Witness ==
    /\ checked
    /\ doc = Obj(<< <<"k1", Arr(<<Str(Complete), Str(CutOff)>>)>>, <<"k2", Str(CutOff)>> >>)
    /\ truncPath = <<"root", ".", "k1", "[1]">>

\* the kinds of the errors a call handed to logger.logError
LoggedErrorKinds(c) == {c.log[i].msg.kind : i \in {j \in 1..Len(c.log) : c.log[j].type = "error"}}

\* C26: in every generateWithSchema call the validator runs only on a value a
\* parser returned, the truncation check runs only on a value the validator
\* accepted, and the reason of a failure, thrown or logged, is that of the
\* first layer that failed: parse, then schema, then truncation.
C26_LayerOrdering ==
    \A f \in Facets : \A c \in CallsOf(f) :
        LET g == grammarParse(c.raw.resp)
            first == IF c.raw.threw THEN "model"
                     ELSE IF ~g.ok THEN "parse"
                     ELSE IF ValidatorErrors(g.val) # {} THEN "schema"
                     ELSE IF validateNoTruncation(g.val) # NoPath THEN "truncated"
                     ELSE "none"
        IN  /\ c.validated => (c.grammarParsed /\ g.ok)
            /\ c.viaFallback => (c.fallbackOk /\ ValidatorErrors(c.value) = {})
            /\ c.truncChecked => (c.validated /\ ValidatorErrors(g.val) = {})
            /\ ~c.returned => (first # "none" /\ c.error.kind = first)
            /\ LoggedErrorKinds(c) \subseteq {first}
            /\ first = "none" => (c.returned /\ c.error = NoMsg)

C26_Witness ==
    \E c \in CallsOf(Pipeline) :
        /\ c.raw = ModelSaid(Raw("json", vTruncatedEmpty))
        /\ c.validated /\ ~c.truncChecked
        /\ ~c.returned
        /\ c.error.kind = "schema"
        /\ LoggedErrorKinds(c) = {"schema"}

\* C28: a generateWithSchema call whose model call failed or returned empty
\* text attempts no fallback parse and throws the original error (the model's
\* error, or the parse error of the empty text); generateWithRetry handles it
\* as a failed attempt: after attempt 1 it goes on to attempt 2, after
\* attempt 2 it throws the exhaustion error carrying that message.
C28_NoRawNoFallback ==
    \A f \in Facets : \A i \in 1..Len(calls[f]) :
        LET c == calls[f][i]
        IN  (c.raw.threw \/ c.raw.resp.form = "empty") =>
                /\ c.fallbackParses = 0
                /\ ~c.viaFallback
                /\ ~c.returned
                /\ c.error = IF c.raw.threw THEN ModelErrorMsg ELSE GrammarParseErrorMsg
                /\ Len(warned[f]) >= i
                /\ warned[f][i] = [attempt |-> i, msg |-> c.error]
                /\ i < maxAttempts =>
                      \/ pc[f] = "running" /\ attempt[f] = i + 1 /\ thrown[f] = NoMsg
                      \/ Len(calls[f]) = i + 1
                /\ i = maxAttempts =>
                      /\ pc[f] = "exhausted"
                      /\ thrown[f] = ExhaustedMsg(c.error)

C28_Witness ==
    /\ pc[Pipeline] = "exhausted"
    /\ Len(calls[Pipeline]) = 2
    /\ calls[Pipeline][1].raw = ModelThrew
    /\ calls[Pipeline][2].raw = ModelSaid(Raw("empty", NoValue))
    /\ calls[Pipeline][2].fallbackParses = 0
    /\ thrown[Pipeline] = ExhaustedMsg(GrammarParseErrorMsg)

\* the operations called for the current request, in order
Ops == [i \in 1..Len(events) |-> events[i].op]

\* the calls made from formatContext on, leaving out the logging-only
\* getInteractions
FromFormat ==
    LET IsStep(op) == op \notin {"getSession", "createSession", "getInteractions"}
    IN  SelectSeq(Ops, IsStep)

\* C21 (states): when formatContext returned null or the empty string,
\* analyzeBatched is still called, every pipeline gets the context
\* undefined, and the request goes through the same steps as a request with
\* context: analyzeBatched, then addInteraction and res.json, or next(error).
AbsentContextTolerated ==
    (hpc = "analyzing" \/ (hpc = "done" /\ "analyzeBatched" \in {Ops[i] : i \in 1..Len(Ops)})) =>
        /\ context \in BlankContexts =>
              /\ \A f \in Facets : input[f].context = "none"
              /\ "getInteractions" \notin {Ops[i] : i \in 1..Len(Ops)}
        /\ context \notin BlankContexts =>
              \A f \in Facets : input[f].context = context
        /\ \A f \in Facets : input[f].message = req.message /\ input[f].deps.sessionId = sessionId
        /\ FromFormat \in
              { <<"formatContext", "analyzeBatched">>,
                <<"formatContext", "analyzeBatched", "analyzeBatched returned",
                  "addInteraction", "res.json">>,
                <<"formatContext", "analyzeBatched", "analyzeBatched returned",
                  "addInteraction threw", "next">>,
                <<"formatContext", "analyzeBatched", "analyzeBatched threw", "next">> }
        /\ hpc = "analyzing" => Len(FromFormat) = 2
        /\ (hpc = "done" /\ sent # <<>>) => FromFormat[Len(FromFormat)] = "res.json"

\* C21 (steps): the step that receives a request whose session has no
\* history and whose sessionManager calls do not throw starts the analysis.
AbsentContextStep ==
    (served' = served + 1 /\ passed' = <<>>) =>
        /\ hpc' = "analyzing"
        /\ \A f \in Facets : pc'[f] = "running" /\ attempt'[f] = 1
        /\ (sessions'[sessionId'] = <<>>) => context' \in BlankContexts

C21_AbsentContextTolerated == []AbsentContextTolerated /\ [][AbsentContextStep]_vars

C21_Witness ==
    /\ hpc = "done"
    /\ context = EmptyContext
    /\ sent # <<>>
    /\ input["tone"].context = "none"
    /\ Ops = <<"createSession", "formatContext", "analyzeBatched",
               "analyzeBatched returned", "addInteraction", "res.json">>

\* C29 (states): a request that is finished has exactly one outcome: one
\* res.json call with success true, the batch data and the sessionId and no
\* next call, or one next(error) call and no res.json call; while the
\* analysis is awaited there is neither. This holds whichever step threw:
\* getSession, createSession, formatContext, analyzeBatched or addInteraction.
ExactlyOneOutcome ==
    /\ hpc = "analyzing" =>
          /\ sent = <<>> /\ passed = <<>>
          /\ Calls("res.json") = {} /\ Calls("next") = {}
    /\ hpc = "done" =>
          /\ Len(sent) + Len(passed) = 1
          /\ Cardinality(Calls("res.json")) = Len(sent)
          /\ Cardinality(Calls("next")) = Len(passed)
          /\ Calls("res.json") \cup Calls("next") = {Len(events)}
          /\ sent # <<>> =>
                /\ sent[1] = [success |-> TRUE, sessionId |-> sessionId,
                              data |-> [f \in Facets |-> result[f]]]
                /\ \A f \in Facets : pc[f] = "success"
                /\ \A i \in 1..Len(events) : events[i].op \notin
                      {"getSession threw", "createSession threw", "formatContext threw",
                       "analyzeBatched threw", "addInteraction threw"}
          /\ passed # <<>> =>
                \E i \in 1..Len(events) :
                    /\ events[i].op \in
                          {"getSession threw", "createSession threw", "formatContext threw",
                           "analyzeBatched threw", "addInteraction threw"}
                    /\ i = Len(events) - 1

\* attempts the four pipelines can still make
AttemptsLeft ==
    LET left(f) == IF pc[f] = "running" THEN maxAttempts + 1 - attempt[f] ELSE 0
    IN  left("intent") + left("tone") + left("impact") + left("alternatives")

\* C29 (states, never neither): while the analysis is awaited the request
\* can always go on: a running pipeline can make an attempt, and once all
\* four are settled the handler can finish, whether addInteraction throws or
\* not.
RequestCanGoOn ==
    hpc = "analyzing" =>
        IF \E f \in Facets : pc[f] = "running"
        THEN /\ AttemptsLeft > 0
             /\ \A f \in Facets : pc[f] = "running" => ENABLED FacetStep(f, ModelThrew)
        ELSE ENABLED Respond(FALSE) /\ ENABLED Respond(TRUE)

\* C29 (steps): every step taken while the analysis is awaited uses up an
\* attempt or finishes the request, so the request is finished after at
\* most eight steps; a finished request's outcome is not added to.
RequestStep ==
    /\ hpc = "analyzing" => (hpc' = "done" \/ AttemptsLeft' < AttemptsLeft)
    /\ (hpc = "done" /\ hpc' = "done" /\ served' = served) => sent' = sent /\ passed' = passed

\* C29: every request ends with exactly one outcome; never both, never neither.
C29_ExactlyOneOutcome ==
    []ExactlyOneOutcome /\ []RequestCanGoOn /\ [][RequestStep]_vars

C29_Witness ==
    /\ hpc = "done"
    /\ \A f \in Facets : pc[f] = "success"
    /\ sent = <<>>
    /\ passed = <<{"addInteraction"}>>
    /\ Ops[Len(Ops)] = "next"

\* the analysis of the current request has failed: analyzeBatched threw
AnalysisFailed == hpc = "done" /\ Calls("analyzeBatched threw") # {}

\* C30 as claimed: a request whose analysis failed has created no session
\* and added no interaction.
C30_FailedRequestLeavesStoreUnchanged ==
    AnalysisFailed => Calls("createSession") = {} /\ Calls("addInteraction") = {}

\* C30 (amended, states): a request whose analysis failed has added no
\* interaction; it has used the session named in the request or created
\* one, at most one, and a session it created is in the store, empty.
FailedRequestStore ==
    AnalysisFailed =>
        /\ sent = <<>>
        /\ Calls("addInteraction") = {}
        /\ sessionId \in DOMAIN sessions
        /\ Cardinality(Calls("createSession")) <= 1
        /\ Calls("createSession") = {} => req.sessionId = sessionId
        /\ Calls("createSession") # {} =>
              /\ sessions[sessionId] = <<>>
              /\ \A i \in Calls("createSession") : events[i].sid = sessionId

\* C30 (amended, steps): receiving a request changes no existing session
\* and adds at most the session created for it; while the analysis runs and
\* when the request ends in next(error) the store stays as it is.
FailedRequestStep ==
    /\ \A id \in DOMAIN sessions : id \in DOMAIN sessions' /\ Len(sessions'[id]) >= Len(sessions[id])
    /\ served' = served + 1 =>
          /\ \A id \in DOMAIN sessions : sessions'[id] = sessions[id]
          /\ DOMAIN sessions' \ DOMAIN sessions \subseteq {sessionId'}
    /\ (hpc = "analyzing" /\ sent' = <<>>) => sessions' = sessions

C30_FailedRequestAddsNoInteraction == []FailedRequestStore /\ [][FailedRequestStep]_vars

C30_Witness ==
    /\ AnalysisFailed
    /\ req.sessionId = ""
    /\ served = 1
    /\ sessions = ("s1" :> <<>>)
    /\ passed = <<{"tone"}>>

\* C22: no logRequest, logResponse or logError call throws or rejects and no
\* rejection is left unhandled, whether getLogFilePath threw, the header
\* append failed or the entry append failed; a call that has not resolved is
\* waiting for its own append, and resolves when that settles.
C22_LoggingNeverThrows ==
    /\ unhandled = 0
    /\ \A n \in 1..Len(logCalls) :
          /\ logCalls[n].status # "rejected"
          /\ logCalls[n].status = "pending" <=>
                \E op \in inflight : op.chunk.kind = "entry" /\ op.chunk.call = n

C22_Witness ==
    /\ Len(logCalls) = 2
    /\ logCalls[1].status = "resolved" /\ logCalls[1].path # NoFile
    /\ logCalls[2].status = "resolved" /\ logCalls[2].path = NoFile
    /\ inflight = {}
    /\ disk = <<>>

\* the header chunks written to, or on their way to, the file at path
Headers(path) ==
    {i \in 1..(IF path \in DOMAIN disk THEN Len(disk[path]) ELSE 0) : disk[path][i].kind = "header"}

PendingHeaders(path) == {op \in inflight : op.path = path /\ op.chunk.kind = "header"}

\* C23 (states): every session that has logged has one file path, made of
\* its sessionId and the time of its first log call; different sessions
\* have different paths; writeLogHeader has been called exactly once for
\* it, so its file never holds the header twice; every chunk written or on
\* its way to a file belongs to the session that file is mapped to.
OneFilePerSession ==
    /\ \A sid \in DOMAIN sessionLogFiles :
          /\ \E t \in 0..clock : sessionLogFiles[sid] = LogFilePath(sid, t)
          /\ Cardinality({i \in 1..Len(headerCalls) : headerCalls[i].sid = sid}) = 1
          /\ Cardinality(Headers(sessionLogFiles[sid]))
                + Cardinality(PendingHeaders(sessionLogFiles[sid])) <= 1
    /\ \A s1, s2 \in DOMAIN sessionLogFiles :
          s1 # s2 => sessionLogFiles[s1] # sessionLogFiles[s2]
    /\ \A i \in 1..Len(headerCalls) :
          /\ headerCalls[i].sid \in DOMAIN sessionLogFiles
          /\ headerCalls[i].path = sessionLogFiles[headerCalls[i].sid]
    /\ \A path \in DOMAIN disk : \A i \in 1..Len(disk[path]) :
          /\ disk[path][i].sid \in DOMAIN sessionLogFiles
          /\ sessionLogFiles[disk[path][i].sid] = path
    /\ \A op \in inflight :
          op.chunk.sid \in DOMAIN sessionLogFiles /\ sessionLogFiles[op.chunk.sid] = op.path
    /\ \A n \in 1..Len(logCalls) :
          logCalls[n].path # NoFile =>
              /\ logCalls[n].sid \in DOMAIN sessionLogFiles
              /\ logCalls[n].path = sessionLogFiles[logCalls[n].sid]

\* C23 (steps): the path of a session never changes, what is in a file
\* stays in it, and the header append of a session is issued in the step
\* that maps it.
FilePathStep ==
    /\ \A sid \in DOMAIN sessionLogFiles :
          sid \in DOMAIN sessionLogFiles' /\ sessionLogFiles'[sid] = sessionLogFiles[sid]
    /\ \A path \in DOMAIN disk :
          path \in DOMAIN disk' /\ SubSeq(disk'[path], 1, Len(disk[path])) = disk[path]
    /\ \A sid \in DOMAIN sessionLogFiles' \ DOMAIN sessionLogFiles :
          /\ DOMAIN sessionLogFiles' = DOMAIN sessionLogFiles \cup {sid}
          /\ \E op \in inflight' : op.path = sessionLogFiles'[sid] /\ op.chunk.kind = "header"
          /\ headerCalls' = Append(headerCalls, [sid |-> sid, path |-> sessionLogFiles'[sid]])
    /\ DOMAIN sessionLogFiles' = DOMAIN sessionLogFiles => headerCalls' = headerCalls

SinceReset(j) ==
    {i \in 1..j : \A k \in i..j : managerCalls[k].op # "reset"}

\* C24 (states): all getInstance and getSessionManager calls between two
\* resets returned the same object, built with the config of the first of
\* them; every object that is no longer the instance was disposed exactly
\* once and the current instance was not.
SingleInstance ==
    /\ \A j \in 1..Len(managerCalls) :
          managerCalls[j].op # "reset" =>
              \A i \in SinceReset(j) :
                  /\ managerCalls[i].returned = managerCalls[j].returned
                  /\ (\A h \in SinceReset(j) : h >= i) =>
                        managers[managerCalls[j].returned].config = managerCalls[i].config
    /\ \A j \in 1..Len(managerCalls) :
          managerCalls[j].op # "reset" =>
              /\ managerCalls[j].returned \in 1..Len(managers)
              /\ \A i \in 1..j :
                    (managerCalls[i].op # "reset" /\ SinceReset(j) \cap {i} = {}) =>
                        managerCalls[i].returned # managerCalls[j].returned
    /\ \A o \in 1..Len(managers) :
          managers[o].disposed = IF o = sessionManagerInstance THEN 0 ELSE 1
    /\ sessionManagerInstance \in 0..Len(managers)
    /\ (Len(managerCalls) > 0 /\ managerCalls[Len(managerCalls)].op # "reset") =>
          sessionManagerInstance = managerCalls[Len(managerCalls)].returned

\* C24 (steps): reset with an instance disposes it once and leaves no
\* instance; reset without one changes nothing; the first getInstance after
\* that constructs a new object, any other constructs none.
SingleInstanceStep ==
    LET made == Len(managerCalls') = Len(managerCalls) + 1
        last == managerCalls'[Len(managerCalls')]
    IN  made =>
          IF last.op = "reset"
          THEN /\ sessionManagerInstance' = NoInstance
               /\ Len(managers') = Len(managers)
               /\ \A o \in 1..Len(managers) :
                     managers'[o].disposed =
                         managers[o].disposed + (IF o = sessionManagerInstance THEN 1 ELSE 0)
               /\ sessionManagerInstance = NoInstance => managers' = managers
          ELSE IF sessionManagerInstance = NoInstance
          THEN /\ managers' = Append(managers, Manager(last.config))
               /\ last.returned = Len(managers')
          ELSE /\ managers' = managers
               /\ last.returned = sessionManagerInstance

C24_SingleInstance == []SingleInstance /\ [][SingleInstanceStep]_vars

C24_Witness ==
    /\ managerCalls = <<ManagerCall("getInstance", "short timeout", 1),
                        ManagerCall("getInstance", "long timeout", 1),
                        ManagerCall("reset", NoConfig, NoInstance),
                        ManagerCall("reset", NoConfig, NoInstance),
                        ManagerCall("getSessionManager", NoConfig, 2)>>
    /\ managers = <<[config |-> "short timeout", disposed |-> 1],
                    [config |-> NoConfig, disposed |-> 0]>>
    /\ sessionManagerInstance = 2

\* C31: in every log file the header comes before every entry: an entry
\* chunk in a file has a header chunk somewhere before it.
C31_HeaderPrecedesEntries ==
    \A path \in DOMAIN disk : \A i \in 1..Len(disk[path]) :
        disk[path][i].kind = "entry" =>
            \E j \in 1..(i - 1) : disk[path][j].kind = "header"

\* the positions of the entries of one type in the log of call c
EntriesOf(c, type) == {i \in 1..Len(c.log) : c.log[i].type = type}

\* logger, sessionId and analysisType are all present for the calls of f
AllPresent(f) ==
    input[f].deps.logger /\ input[f].deps.sessionId # "" /\ input[f].analysisType # "none"

\* C32 as claimed: with logger, sessionId and analysisType present a
\* generateWithSchema call logs exactly one request entry, first, at most
\* one response entry and, when it fails, at most one error entry; with one
\* of the three absent it logs nothing.
C32_OneEntryOfEachType ==
    \A f \in Facets : \A c \in CallsOf(f) :
        IF AllPresent(f)
        THEN /\ EntriesOf(c, "request") = {1}
             /\ Cardinality(EntriesOf(c, "response")) <= 1
             /\ ~c.returned => Cardinality(EntriesOf(c, "error")) <= 1
        ELSE c.log = <<>>

\* C32 (amended): with the three present a call logs exactly one request
\* entry, first; one response entry when the model returned text and a
\* second one when the fallback parse is accepted; one error entry from the
\* catch block when the try block threw, preceded by one from the schema or
\* truncation check when that check is what threw; with one of the three
\* absent it logs nothing.
C32_LogEntriesPerCall ==
    \A f \in Facets : \A c \in CallsOf(f) :
        IF AllPresent(f)
        THEN LET tryThrew == ~c.returned \/ c.viaFallback
                 one(b) == IF b THEN 1 ELSE 0
             IN  /\ EntriesOf(c, "request") = {1}
                 /\ Cardinality(EntriesOf(c, "response")) =
                       one(~c.raw.threw /\ c.raw.resp.form # "empty") + one(c.viaFallback)
                 /\ Cardinality(EntriesOf(c, "error")) =
                       one(tryThrew) + one(tryThrew /\ c.validated)
                 /\ Cardinality(EntriesOf(c, "response")) <= 2
                 /\ Cardinality(EntriesOf(c, "error")) <= 2
                 /\ c.viaFallback => c.log[Len(c.log)].type = "response"
        ELSE c.log = <<>>

C32_Witness ==
    \E c \in CallsOf(Pipeline) :
        /\ AllPresent(Pipeline)
        /\ c.raw = ModelSaid(Raw("json", vEmptyArray))
        /\ ~c.returned
        /\ [i \in 1..Len(c.log) |-> c.log[i].type] = <<"request", "response", "error", "error">>

\* the log entry of the failure of attempt n of f
FailureEntry(f, n) == LogEntry("error", AttemptFailedMsg(warned[f][n].msg), n)

\* the attempt-failure entries in the log of f: those that carry an attempt
AttemptEntries(f) == SelectSeq(log[f], LAMBDA e : e.attempt # 0)

\* C33 as claimed: for every failed attempt n logError has been called with
\* n and "Attempt n failed: <message>".
C33_EveryFailureLogged ==
    \A f \in Facets : \A n \in 1..Len(warned[f]) :
        \E i \in 1..Len(log[f]) : log[f][i] = FailureEntry(f, n)

\* what generateWithSchema logged in the calls made by attempts m and later
RECURSIVE LogFrom(_, _)
LogFrom(f, m) ==
    LET k == IF input[f].builderThrows THEN 0 ELSE Len(calls[f])
        own == IF m <= k THEN calls[f][m].log ELSE <<>>
        failed == IF m <= Len(warned[f]) THEN <<FailureEntry(f, m)>> ELSE <<>>
    IN  IF m > maxAttempts THEN <<>> ELSE own \o failed \o LogFrom(f, m + 1)

\* C33 (amended, states): every failed attempt is warned about with its
\* number and error message, and its message is the one carried on; when
\* logger, sessionId and analysisType are present the log holds, for each
\* failed attempt n, one entry with attempt n and "Attempt n failed:
\* <message>", after the entries of attempt n and before those of attempt
\* n + 1, and no such entry for a successful attempt; otherwise it holds
\* nothing.
FailuresRecorded ==
    \A f \in Facets :
        /\ \A n \in 1..Len(warned[f]) : warned[f][n].attempt = n
        /\ pc[f] = "running" => Len(warned[f]) = attempt[f] - 1
        /\ pc[f] = "exhausted" =>
              /\ Len(warned[f]) = maxAttempts
              /\ thrown[f] = ExhaustedMsg(warned[f][maxAttempts].msg)
        /\ pc[f] = "success" => Len(warned[f]) = attempt[f] - 1
        /\ (pc[f] # "idle" /\ Len(warned[f]) > 0) => lastError[f] = warned[f][Len(warned[f])].msg
        /\ pc[f] # "idle" =>
              IF AllPresent(f)
              THEN /\ log[f] = LogFrom(f, 1)
                   /\ AttemptEntries(f) = [n \in 1..Len(warned[f]) |-> FailureEntry(f, n)]
              ELSE log[f] = <<>>

\* C33 (amended, steps): the step in which an attempt fails is the step
\* that records it, and attempt n + 1 starts, or the exhaustion error is
\* thrown, no earlier.
FailureRecordedStep ==
    \A f \in Facets :
        (pc[f] = "running" /\ (attempt'[f] = attempt[f] + 1 \/ pc'[f] = "exhausted")) =>
            /\ Len(warned'[f]) = Len(warned[f]) + 1
            /\ warned'[f][Len(warned'[f])].attempt = attempt[f]
            /\ AllPresent(f) =>
                  log'[f][Len(log'[f])] =
                      LogEntry("error", AttemptFailedMsg(warned'[f][Len(warned'[f])].msg), attempt[f])

C33_FailuresRecorded == []FailuresRecorded /\ [][FailureRecordedStep]_vars

C33_Witness ==
    /\ pc[Pipeline] = "success"
    /\ AllPresent(Pipeline)
    /\ attempt[Pipeline] = 2
    /\ Len(AttemptEntries(Pipeline)) = 1
    /\ AttemptEntries(Pipeline)[1] = LogEntry("error", AttemptFailedMsg(GrammarParseErrorMsg), 1)
    /\ log[Pipeline][Len(log[Pipeline])].type = "response"

\* the getLLMLogger calls made after the last reset, up to call j
GetsSinceReset(j) == {i \in 1..j : \A k \in i..j : loggerGets[k].op # "reset"}

\* C34 (states): the getLLMLogger calls made since the last reset all
\* returned the current instance; it has the logDir of the first of them
\* (or the default), whatever logDir later calls passed; its model name and
\* path are those of the last later call that gave a modelPath, and
\* otherwise the name derived from the first call's modelPath (or
\* "unknown") and the empty path the constructor leaves.
SharedLogger ==
    LET j == Len(loggerGets)
        gets == GetsSinceReset(j)
        first == CHOOSE i \in gets : \A h \in gets : i <= h
        updates == {i \in gets \ {first} : loggerGets[i].modelPath \notin {Undefined, EmptyPath}}
        last == CHOOSE i \in updates : \A h \in updates : h <= i
        cur == loggers[loggerInstance]
    IN  /\ loggerInstance \in 0..Len(loggers)
        /\ (j > 0 /\ loggerGets[j].op = "reset") => loggerInstance = NoLogger
        /\ loggerInstance = NoLogger <=> gets = {}
        /\ gets # {} =>
              /\ \A i \in gets : loggerGets[i].returned = loggerInstance
              /\ \A i \in 1..j : (loggerGets[i].op = "get" /\ i \notin gets) =>
                    loggerGets[i].returned # loggerInstance
              /\ cur.logDir = IF loggerGets[first].logDir = Undefined THEN DefaultLogDir
                              ELSE loggerGets[first].logDir
              /\ IF updates # {}
                 THEN /\ cur.modelPath = loggerGets[last].modelPath
                      /\ cur.modelName = ModelName(loggerGets[last].modelPath)
                      /\ cur.modelName \in {<<"qwen">>, <<"llama">>}
                 ELSE /\ cur.modelPath = EmptyPath
                      /\ cur.modelName =
                            IF loggerGets[first].modelPath \in {Undefined, EmptyPath}
                            THEN <<"unknown">>
                            ELSE ModelName(loggerGets[first].modelPath)

\* C34 (steps): a getLLMLogger call with no instance constructs a new
\* object whose session map is empty; with an instance it constructs none
\* and leaves its logDir and session map alone; resetLLMLogger drops the
\* instance and touches no object.
SharedLoggerStep ==
    Len(loggerGets') = Len(loggerGets) + 1 =>
        IF loggerGets'[Len(loggerGets')].op = "reset"
        THEN loggerInstance' = NoLogger /\ loggers' = loggers
        ELSE IF loggerInstance = NoLogger
        THEN /\ Len(loggers') = Len(loggers) + 1
             /\ loggerInstance' = Len(loggers')
             /\ loggers'[loggerInstance'].mapped = {}
             /\ \A o \in 1..Len(loggers) : loggers'[o] = loggers[o]
        ELSE /\ Len(loggers') = Len(loggers)
             /\ loggerInstance' = loggerInstance
             /\ loggers'[loggerInstance].logDir = loggers[loggerInstance].logDir
             /\ loggers'[loggerInstance].mapped = loggers[loggerInstance].mapped
             /\ \A o \in 1..Len(loggers) : o # loggerInstance => loggers'[o] = loggers[o]

C34_SharedLogger == []SharedLogger /\ [][SharedLoggerStep]_vars

C34_Witness ==
    /\ loggerGets =
          <<LoggerGet("get", <<"./other-logs">>, <<"models/", "qwen", ".gguf">>, 1),
            LoggerGet("get", Undefined, <<"llama", ".gguf">>, 1),
            LoggerGet("reset", Undefined, Undefined, NoLogger),
            LoggerGet("get", Undefined, Undefined, 2)>>
    /\ loggers[1] = [logDir |-> <<"./other-logs">>, modelName |-> <<"llama">>,
                     modelPath |-> <<"llama", ".gguf">>, mapped |-> {<<"a">>}]
    /\ loggers[2] = [logDir |-> DefaultLogDir, modelName |-> <<"unknown">>,
                     modelPath |-> EmptyPath, mapped |-> {}]
    /\ loggerInstance = 2

\* the handleAnalyze calls that have not settled
Unsettled == {r \in 1..Len(runs) : runs[r].at # "settled"}

\* C35: at most one analyzeMessage request is in flight, at most one
\* handleAnalyze call is unsettled, and the handleAnalyze calls made while
\* the view had no session have created at most one between them.
C35_OneRequestInFlight ==
    /\ Cardinality({r \in 1..Len(runs) : runs[r].at = "analyzeMessage"}) <= 1
    /\ Cardinality(Unsettled) <= 1
    /\ Cardinality({r \in 1..Len(runs) : runs[r].at = "createSession"}) <= 1

====
